---- MODULE Spec2Model ----
(***************************************************************************)
(* Device-bound session keys of langchain-zendfi.                          *)
(*                                                                         *)
(* The model covers crypto.py (PIN check, PBKDF2 + AES-GCM as an ideal     *)
(* AEAD, the process-wide device fingerprint cache) and session_keys.py    *)
(* (DeviceBoundSessionKey and SessionKeysManager).  The asynchronous       *)
(* manager operations are split at their only suspension point, the        *)
(* awaited backend request; everything else runs to completion.            *)
(*                                                                         *)
(* Python raises ValueError at every failure site of these two files; the  *)
(* model names each raise site by the failure it reports.                  *)
(***************************************************************************)
EXTENDS Integers, Sequences, FiniteSets, TLC

\* ------------------------------------------------------------- bounds
MaxKeys == 2      \* keypairs generate_keypair() produces in one run
MaxTime == 2      \* last instant of the clock
MaxTtl == 1       \* largest cache_ttl_minutes a caller passes
MaxPending == 1   \* backend requests in flight at once

\* session_key_id values (UUID strings) the backend hands out; "" where an
\* operation has none.
Ids == {"sk1", "sk2"}
NoId == ""
KeyVals == 1..MaxKeys
Ttls == 0..MaxTtl

\* Python's None for an Optional[SessionKeypair] / Optional[datetime] / cache.
NoKeypair == 0
NoExpiry == -1
NoFp == "none"

\* The two values the probes of the device can hash to.
Fps == {"fpA", "fpB"}

\* ------------------------------------------------------------- PINs
\* A str is a sequence of characters; Optional[str] is <<>> (None) or <<s>>.
PinA == <<"1", "2", "3", "4", "5", "6">>
PinB == <<"6", "5", "4", "3", "2", "1">>
PinLetters == <<"1", "2", "a", "b">>
PinShort == <<"1", "2">>
Pins == {PinA, PinB, PinLetters, PinShort}
NoPin == <<>>
OptPins == {NoPin} \cup {<<p>> : p \in Pins}

Digits == {"0", "1", "2", "3", "4", "5", "6", "7", "8", "9"}

\* Characters outside ASCII that str.isdigit() takes for digits, each written
\* by its code point: ARABIC-INDIC DIGIT ONE..SIX and SUPERSCRIPT TWO.
UnicodeDigits == {"U+0661", "U+0662", "U+0663", "U+0664", "U+0665", "U+0666", "U+00B2"}

\* str.isdigit(): non-empty and every character a digit of any script.
IsDigitStr(s) == Len(s) > 0 /\ \A i \in 1..Len(s) : s[i] \in Digits \cup UnicodeDigits

\* `not pin or not pin.isdigit() or len(pin) != 6` is the rejection.
PinFormatOk(pin) == ~(Len(pin) = 0 \/ ~IsDigitStr(pin) \/ Len(pin) # 6)

\* ------------------------------------------------------------- crypto
\* PBKDF2 over (pin, sha256(fingerprint)): one key per (pin, fingerprint).
DeriveKey(pin, fp) == <<pin, fp>>

\* SessionKeyCrypto.encrypt: the ciphertext opens only under the derived key.
\* steps lists the cryptographic calls made, in order.
Encrypt(keypair, pin, fp) ==
  IF ~PinFormatOk(pin)
  THEN [ok |-> FALSE, err |-> "ValidationError", enc |-> <<>>, steps |-> <<>>]
  ELSE [ok |-> TRUE, err |-> "",
        enc |-> << [encrypted_data |-> [key |-> DeriveKey(pin, fp), secret |-> keypair],
                    public_key |-> keypair,
                    device_fingerprint |-> fp] >>,
        steps |-> <<"_derive_key", "AESGCM.encrypt">>]

\* decrypt() that leaves the fingerprint to the AEAD tag.
Decrypt_tag_only(encrypted, pin, fp) ==
  IF ~PinFormatOk(pin)
  THEN [ok |-> FALSE, err |-> "ValidationError", kp |-> NoKeypair, steps |-> <<>>]
  ELSE IF encrypted.encrypted_data.key # DeriveKey(pin, fp)
       THEN [ok |-> FALSE, err |-> "DecryptionError", kp |-> NoKeypair,
             steps |-> <<"_derive_key", "AESGCM.decrypt">>]
  ELSE [ok |-> TRUE, err |-> "", kp |-> encrypted.encrypted_data.secret,
        steps |-> <<"_derive_key", "AESGCM.decrypt">>]

\* decrypt() that compares the fingerprints only, without the AEAD tag.
Decrypt_no_tag(encrypted, pin, fp) ==
  IF ~PinFormatOk(pin)
  THEN [ok |-> FALSE, err |-> "ValidationError", kp |-> NoKeypair, steps |-> <<>>]
  ELSE IF encrypted.device_fingerprint # fp
       THEN [ok |-> FALSE, err |-> "DeviceMismatchError", kp |-> NoKeypair, steps |-> <<>>]
  ELSE [ok |-> TRUE, err |-> "", kp |-> encrypted.encrypted_data.secret,
        steps |-> <<"_derive_key", "AESGCM.decrypt">>]

\* SessionKeyCrypto.decrypt: PIN format, then the recorded fingerprint, then
\* the AEAD tag under the derived key.
Decrypt(encrypted, pin, fp) ==
  IF ~PinFormatOk(pin)
  THEN [ok |-> FALSE, err |-> "ValidationError", kp |-> NoKeypair, steps |-> <<>>]
  ELSE IF encrypted.device_fingerprint # fp
       THEN [ok |-> FALSE, err |-> "DeviceMismatchError", kp |-> NoKeypair, steps |-> <<>>]
  ELSE IF encrypted.encrypted_data.key # DeriveKey(pin, fp)
       THEN [ok |-> FALSE, err |-> "DecryptionError", kp |-> NoKeypair,
             steps |-> <<"_derive_key", "AESGCM.decrypt">>]
  ELSE [ok |-> TRUE, err |-> "", kp |-> encrypted.encrypted_data.secret,
        steps |-> <<"_derive_key", "AESGCM.decrypt">>]

VARIABLES
  now,                \* datetime.now()
  deviceAttr,         \* what the device probes hash to at this moment
  cachedFingerprint,  \* DeviceFingerprintGenerator._cached_fingerprint
  nextKey,            \* keypairs generated so far + 1
  dk,                 \* a DeviceBoundSessionKey the caller holds directly
  sessionKeys,        \* SessionKeysManager._session_keys
  sessionMetadata,    \* SessionKeysManager._session_metadata
  pending,            \* manager coroutines suspended on their backend request
  ret,                \* the operation that ran last and how it ended
  calc                \* a function of crypto.py / autonomy.py under evaluation

vars == <<now, deviceAttr, cachedFingerprint, nextKey, dk, sessionKeys, sessionMetadata,
          pending, ret, calc>>

\* cache_ttl_minutes: int = 30, the default of unlock_with_pin, which
\* get_keypair(pin) uses.
DefaultCacheTtl == 30

\* ------------------------------------------------ DeviceFingerprintGenerator
\* generate(use_cache=True): the cached value if there is one, else the hash
\* of the probes, which it then caches.  Every caller below uses the default.
generate == IF cachedFingerprint # NoFp THEN cachedFingerprint ELSE deviceAttr

\* ------------------------------------------------ DeviceBoundSessionKey
\* The fields of one instance (the session key id is the registry key).
Key(kp, enc, fp, cached, expires) ==
  [keypair |-> kp, encrypted |-> enc, device_fingerprint |-> fp,
   cached_keypair |-> cached, cache_expires_at |-> expires]

\* Optional[EncryptedSessionKey] = None, and the instance __init__ leaves.
NoEncrypted ==
  [encrypted_data |-> [key |-> DeriveKey(<<>>, NoFp), secret |-> NoKeypair],
   public_key |-> NoKeypair, device_fingerprint |-> NoFp]
NoKey == Key(NoKeypair, NoEncrypted, NoFp, NoKeypair, NoExpiry)

\* is_cached() that never looks at the clock.
is_cached_ignores_expiry(k, t) ==
  k.cached_keypair # NoKeypair /\ k.cache_expires_at # NoExpiry

\* is_cached() with an inclusive bound, now <= expiry.
is_cached_inclusive(k, t) ==
  IF k.cached_keypair = NoKeypair THEN FALSE
  ELSE IF k.cache_expires_at = NoExpiry THEN FALSE
  ELSE t <= k.cache_expires_at

\* is_cached(): cached, with an expiry, and now < expiry.
is_cached(k, t) ==
  IF k.cached_keypair = NoKeypair THEN FALSE
  ELSE IF k.cache_expires_at = NoExpiry THEN FALSE
  ELSE t < k.cache_expires_at

\* is_unlocked: the raw keypair, or a live cache.
is_unlocked(k, t) == IF k.keypair # NoKeypair THEN TRUE ELSE is_cached(k, t)

\* unlock_with_pin() that only ever extends the cache window.
unlock_with_pin_keeps_later(k, pin, ttl, t, fp) ==
  LET d == Decrypt(k.encrypted, pin, fp) IN
  IF k.encrypted = NoEncrypted
  THEN [key |-> k, outcome |-> "NotInitializedError", kp |-> NoKeypair, gen |-> FALSE]
  ELSE IF ~d.ok THEN [key |-> k, outcome |-> d.err, kp |-> NoKeypair, gen |-> TRUE]
  ELSE [key |-> [k EXCEPT !.cached_keypair = d.kp,
                          !.cache_expires_at =
                             IF k.cache_expires_at > t + ttl THEN k.cache_expires_at
                             ELSE t + ttl],
        outcome |-> "ok", kp |-> d.kp, gen |-> TRUE]

\* unlock_with_pin() that drops the cache before it decrypts.
unlock_with_pin_clears_first(k, pin, ttl, t, fp) ==
  LET d == Decrypt(k.encrypted, pin, fp)
      cleared == [k EXCEPT !.cached_keypair = NoKeypair, !.cache_expires_at = NoExpiry] IN
  IF k.encrypted = NoEncrypted
  THEN [key |-> k, outcome |-> "NotInitializedError", kp |-> NoKeypair, gen |-> FALSE]
  ELSE IF ~d.ok THEN [key |-> cleared, outcome |-> d.err, kp |-> NoKeypair, gen |-> TRUE]
  ELSE [key |-> [k EXCEPT !.cached_keypair = d.kp, !.cache_expires_at = t + ttl],
        outcome |-> "ok", kp |-> d.kp, gen |-> TRUE]

\* unlock_with_pin(pin, cache_ttl_minutes) at time t on the device whose
\* generate() returns fp.  [key: the instance afterwards, outcome, kp: returned,
\* gen: whether generate() was called]
unlock_with_pin(k, pin, ttl, t, fp) ==
  LET d == Decrypt(k.encrypted, pin, fp) IN
  IF k.encrypted = NoEncrypted
  THEN [key |-> k, outcome |-> "NotInitializedError", kp |-> NoKeypair, gen |-> FALSE]
  ELSE IF ~d.ok THEN [key |-> k, outcome |-> d.err, kp |-> NoKeypair, gen |-> TRUE]
  ELSE [key |-> [k EXCEPT !.cached_keypair = d.kp, !.cache_expires_at = t + ttl],
        outcome |-> "ok", kp |-> d.kp, gen |-> TRUE]

\* lock() that forgets to drop the raw keypair.
lock_keeps_raw(k) ==
  [k EXCEPT !.cached_keypair = NoKeypair, !.cache_expires_at = NoExpiry]

\* lock() that also throws the encrypted form away.
lock_wipes_encrypted(k) ==
  [k EXCEPT !.keypair = NoKeypair, !.cached_keypair = NoKeypair,
            !.cache_expires_at = NoExpiry, !.encrypted = NoEncrypted]

\* lock()
lock(k) ==
  [k EXCEPT !.keypair = NoKeypair, !.cached_keypair = NoKeypair,
            !.cache_expires_at = NoExpiry]

\* get_keypair() that serves the cache only and never the raw keypair.
get_keypair_cache_only(k, optPin, t, fp) ==
  IF is_cached(k, t) /\ k.cached_keypair # NoKeypair
  THEN [key |-> k, outcome |-> "ok", kp |-> k.cached_keypair, gen |-> FALSE]
  ELSE IF optPin = NoPin
  THEN [key |-> k, outcome |-> "NotUnlockedError", kp |-> NoKeypair, gen |-> FALSE]
  ELSE LET u == unlock_with_pin(k, optPin[1], DefaultCacheTtl, t, fp) IN
       [key |-> u.key, outcome |-> u.outcome, kp |-> u.kp, gen |-> u.gen]

\* get_keypair(pin=None).  gen: whether generate() was called on the way.
get_keypair(k, optPin, t, fp) ==
  IF is_cached(k, t) /\ k.cached_keypair # NoKeypair
  THEN [key |-> k, outcome |-> "ok", kp |-> k.cached_keypair, gen |-> FALSE]
  ELSE IF k.keypair # NoKeypair
  THEN [key |-> k, outcome |-> "ok", kp |-> k.keypair, gen |-> FALSE]
  ELSE IF optPin = NoPin
  THEN [key |-> k, outcome |-> "NotUnlockedError", kp |-> NoKeypair, gen |-> FALSE]
  ELSE LET u == unlock_with_pin(k, optPin[1], DefaultCacheTtl, t, fp) IN
       [key |-> u.key, outcome |-> u.outcome, kp |-> u.kp, gen |-> u.gen]

\* ------------------------------------------------ observations
\* op: the method; id: its session_key_id ("" if it has none); outcome: "ok" or
\* the failure; pin: whether a PIN was passed; ttl: the cache_ttl_minutes passed
\* to an unlock (0 elsewhere).
Ret(op, id, outcome, pin, ttl) ==
  [op |-> op, id |-> id, outcome |-> outcome, pin |-> pin, ttl |-> ttl]

\* No function under evaluation.
Idle == [fn |-> "none"]

\* A process that has imported the package and built a manager.
Started ==
  /\ now = 0
  /\ deviceAttr = "fpA"
  /\ cachedFingerprint = NoFp
  /\ nextKey = 1
  /\ dk = NoKey
  /\ sessionKeys = <<>>
  /\ sessionMetadata = <<>>
  /\ pending = {}
  /\ ret = Ret("init", NoId, "ok", FALSE, 0)

Init == Started /\ calc = Idle

\* dict[id] = v and dict.pop(id, None)
Put(d, id, v) == [x \in (DOMAIN d) \cup {id} |-> IF x = id THEN v ELSE d[x]]
Pop(d, id) == [x \in (DOMAIN d) \ {id} |-> d[x]]

\* A key of a response dict: <<>> when the backend left it out, <<v>> when it
\* sent v.  Get is dict.get(key, default).
Absent == <<>>
Get(opt, default) == IF opt = Absent THEN default ELSE opt[1]

\* ------------------------------------------------ environment
\* Time passes.
Tick ==
  /\ now < MaxTime
  /\ now' = now + 1
  /\ ret' = Ret("tick", NoId, "ok", FALSE, 0)
  /\ UNCHANGED <<deviceAttr, cachedFingerprint, nextKey, dk, calc, sessionKeys, sessionMetadata, pending>>

\* A probed attribute of the device changes (hostname, machine id, entropy file).
ChangeDevice ==
  /\ deviceAttr' \in Fps \ {deviceAttr}
  /\ ret' = Ret("device", NoId, "ok", FALSE, 0)
  /\ UNCHANGED <<now, cachedFingerprint, nextKey, dk, calc, sessionKeys, sessionMetadata, pending>>

\* DeviceFingerprintGenerator.clear_cache()
clear_cache ==
  /\ cachedFingerprint' = NoFp
  /\ ret' = Ret("clear_cache", NoId, "ok", FALSE, 0)
  /\ UNCHANGED <<now, deviceAttr, nextKey, dk, calc, sessionKeys, sessionMetadata, pending>>

\* ------------------------------------------------ DeviceFingerprintGenerator.generate
\* What the probes of one generate() call meet on the machine:
\* machine_id_file: what open("/etc/machine-id") does; ioreg: what the macOS
\* tool does; local_id_file and entropy_file: the files under /tmp, found,
\* absent and written, or failing.
MachineIdFile == {"readable", "FileNotFoundError", "PermissionError", "IsADirectoryError"}
Ioreg == {"uuid", "FileNotFoundError", "no_uuid_line"}
TmpFile == {"exists", "written", "OSError"}
Probes ==
  [machine_id_file : MachineIdFile, ioreg : Ioreg, local_id_file : TmpFile,
   entropy_file : TmpFile]

\* _get_machine_id(): the first probe that answers; raised: an exception that
\* no handler of the method catches; value "" is None.
get_machine_id(p) ==
  IF p.machine_id_file = "readable"
  THEN [raised |-> FALSE, error |-> "", value |-> "machine-id"]
  ELSE IF p.machine_id_file \notin {"FileNotFoundError", "PermissionError"}
  THEN [raised |-> TRUE, error |-> p.machine_id_file, value |-> ""]
  ELSE IF p.ioreg = "uuid"
  THEN [raised |-> FALSE, error |-> "", value |-> "IOPlatformUUID"]
  ELSE IF p.local_id_file = "exists"
  THEN [raised |-> FALSE, error |-> "", value |-> "stored-id"]
  ELSE IF p.local_id_file = "written"
  THEN [raised |-> FALSE, error |-> "", value |-> "new-id"]
  ELSE [raised |-> FALSE, error |-> "", value |-> ""]

\* _get_stable_entropy(): the stored value, a new one, or the hash of the node name.
get_stable_entropy(p) ==
  IF p.entropy_file = "exists" THEN "stored-entropy"
  ELSE IF p.entropy_file = "written" THEN "new-entropy"
  ELSE "node-hash"

\* generate(use_cache) that recomputes and stores on every call.
generate_call_always_computes(use_cache, cached, attr, p) ==
  LET m == get_machine_id(p) IN
  IF m.raised
  THEN [outcome |-> m.error, result |-> NoFp, cache |-> cached, computed |-> TRUE]
  ELSE [outcome |-> "ok", result |-> attr,
        cache |-> IF use_cache THEN attr ELSE cached, computed |-> TRUE]

\* generate(use_cache) with the class holding cached, on a device whose
\* components hash to attr, meeting probes p.  [outcome: "ok" or the exception
\* that leaves generate; result: the fingerprint returned; cache: the class
\* attribute afterwards; computed: whether the probes ran]
generate_call(use_cache, cached, attr, p) ==
  LET m == get_machine_id(p) IN
  IF use_cache /\ cached # NoFp
  THEN [outcome |-> "ok", result |-> cached, cache |-> cached, computed |-> FALSE]
  ELSE IF m.raised
  THEN [outcome |-> m.error, result |-> NoFp, cache |-> cached, computed |-> TRUE]
  ELSE [outcome |-> "ok", result |-> attr,
        cache |-> IF use_cache THEN attr ELSE cached, computed |-> TRUE]

\* DeviceFingerprintGenerator.generate(use_cache), called directly.
Fp_generate(use_cache, p) ==
  LET g == generate_call(use_cache, cachedFingerprint, deviceAttr, p) IN
  /\ cachedFingerprint' = g.cache
  /\ ret' = Ret("generate", NoId, g.outcome, FALSE, 0)
  /\ calc' = [fn |-> "generate", use_cache |-> use_cache, probes |-> p,
              result |-> g.result, computed |-> g.computed,
              machine_id |-> get_machine_id(p).value, entropy |-> get_stable_entropy(p)]
  /\ UNCHANGED <<now, deviceAttr, nextKey, dk, sessionKeys, sessionMetadata, pending>>

\* ------------------------------------------------ SessionKeysManager, synchronous
\* unlock(session_key_id, pin, cache_ttl_minutes)
Mgr_unlock(id, pin, ttl) ==
  IF id \notin DOMAIN sessionKeys
  THEN /\ ret' = Ret("unlock", id, "NotLoadedError", TRUE, ttl)
       /\ UNCHANGED <<now, deviceAttr, cachedFingerprint, nextKey, dk, calc, sessionKeys,
                      sessionMetadata, pending>>
  ELSE LET u == unlock_with_pin(sessionKeys[id], pin, ttl, now, generate) IN
       /\ cachedFingerprint' = generate
       /\ sessionKeys' = [sessionKeys EXCEPT ![id] = u.key]
       /\ ret' = Ret("unlock", id, u.outcome, TRUE, ttl)
       /\ UNCHANGED <<now, deviceAttr, nextKey, dk, calc, sessionMetadata, pending>>

\* lock(session_key_id) that raises for an id that is not loaded, as its
\* sibling methods do.
Mgr_lock_strict(id) ==
  /\ sessionKeys' = IF id \in DOMAIN sessionKeys
                    THEN [sessionKeys EXCEPT ![id] = lock(sessionKeys[id])]
                    ELSE sessionKeys
  /\ ret' = Ret("lock", id, IF id \in DOMAIN sessionKeys THEN "ok" ELSE "NotLoadedError",
                FALSE, 0)
  /\ UNCHANGED <<now, deviceAttr, cachedFingerprint, nextKey, dk, calc, sessionMetadata, pending>>

\* lock(session_key_id) that locks every key of the registry.
Mgr_lock_all(id) ==
  /\ sessionKeys' = [x \in DOMAIN sessionKeys |-> lock(sessionKeys[x])]
  /\ ret' = Ret("lock", id, "ok", FALSE, 0)
  /\ UNCHANGED <<now, deviceAttr, cachedFingerprint, nextKey, dk, calc, sessionMetadata, pending>>

\* lock(session_key_id): `if session_key: session_key.lock()`
Mgr_lock(id) ==
  /\ sessionKeys' = IF id \in DOMAIN sessionKeys
                    THEN [sessionKeys EXCEPT ![id] = lock(sessionKeys[id])]
                    ELSE sessionKeys
  /\ ret' = Ret("lock", id, "ok", FALSE, 0)
  /\ UNCHANGED <<now, deviceAttr, cachedFingerprint, nextKey, dk, calc, sessionMetadata, pending>>

\* The lookup of get_keypair / sign / sign_delegation without its None check:
\* a missing id is reported as a key that is not unlocked.
WithKeypair_unchecked(op, id, optPin) ==
  IF id \notin DOMAIN sessionKeys
  THEN /\ ret' = Ret(op, id, "NotUnlockedError", optPin # NoPin, 0)
       /\ UNCHANGED <<now, deviceAttr, cachedFingerprint, nextKey, dk, calc, sessionKeys,
                      sessionMetadata, pending>>
  ELSE LET g == get_keypair(sessionKeys[id], optPin, now, generate) IN
       /\ cachedFingerprint' = IF g.gen THEN generate ELSE cachedFingerprint
       /\ sessionKeys' = [sessionKeys EXCEPT ![id] = g.key]
       /\ ret' = Ret(op, id, g.outcome, optPin # NoPin, 0)
       /\ UNCHANGED <<now, deviceAttr, nextKey, dk, calc, sessionMetadata, pending>>

\* The shared body of get_keypair / sign / sign_delegation: look the key up,
\* then DeviceBoundSessionKey.get_keypair(pin) (sign and sign_base64 then sign
\* with the keypair they got, which cannot fail).
WithKeypair(op, id, optPin) ==
  IF id \notin DOMAIN sessionKeys
  THEN /\ ret' = Ret(op, id, "NotLoadedError", optPin # NoPin, 0)
       /\ UNCHANGED <<now, deviceAttr, cachedFingerprint, nextKey, dk, calc, sessionKeys,
                      sessionMetadata, pending>>
  ELSE LET g == get_keypair(sessionKeys[id], optPin, now, generate) IN
       /\ cachedFingerprint' = IF g.gen THEN generate ELSE cachedFingerprint
       /\ sessionKeys' = [sessionKeys EXCEPT ![id] = g.key]
       /\ ret' = Ret(op, id, g.outcome, optPin # NoPin, 0)
       /\ UNCHANGED <<now, deviceAttr, nextKey, dk, calc, sessionMetadata, pending>>

\* is_unlocked(session_key_id): False for an id that is not registered, else
\* is_cached() of the registered key.
Mgr_is_unlocked(id) ==
  IF id \notin DOMAIN sessionKeys THEN FALSE ELSE is_cached(sessionKeys[id], now)

\* get_keypair(session_key_id, pin=None)
Mgr_get_keypair(id, optPin) == WithKeypair("get_keypair", id, optPin)

\* sign(session_key_id, message, pin=None)
Mgr_sign(id, optPin) == WithKeypair("sign", id, optPin)

\* sign_delegation(session_key_id, max_amount_usd, expires_at, pin=None): the
\* message is built first, which touches no state.
Mgr_sign_delegation(id, optPin) == WithKeypair("sign_delegation", id, optPin)

\* ------------------------------------------------ SessionKeysManager, asynchronous
\* A coroutine suspended on `await self._request(...)` keeps its locals:
\* the session key create() built with its options, or load()'s id, pin and
\* fingerprint.  lit is the lit_encrypted_keypair / lit_data_hash pair of
\* create()'s request_data.
Suspended(op, id, pin, fp, key, agent, enable_lit_protocol, lit) ==
  [op |-> op, id |-> id, pin |-> pin, fp |-> fp, key |-> key, agent |-> agent,
   enable_lit_protocol |-> enable_lit_protocol, lit |-> lit]

\* The model lets fewer than n coroutines wait for the backend at a time.
InFlight(n) == Cardinality(pending) < n

\* options.agent_id; "absent" is a response without the field.
Agents == {"agentA", "agentB"}
NoAgent == "absent"

\* DeviceBoundSessionKey.create(pin, ...): fingerprint, keypair, encrypt.
\* kp is the keypair generate_keypair() returns.
DeviceBoundSessionKey_create(pin, fp, kp) ==
  LET e == Encrypt(kp, pin, fp) IN
  IF ~e.ok THEN [ok |-> FALSE, err |-> e.err, key |-> NoKey]
  ELSE [ok |-> TRUE, err |-> "", key |-> Key(kp, e.enc[1], fp, NoKeypair, NoExpiry)]

\* What the Lit microservice does when asked: it encrypts, or it cannot be
\* reached, reports connected = false, fails its health check otherwise, times
\* out, answers {"error": ...}, or answers with an HTTP error status.
LitServices ==
  {"ok", "unreachable", "not_connected", "health_failed", "timeout", "error", "http_error"}

\* Optional[LitEncryptionResult] = None
NoLit == <<>>

\* encrypt_keypair_with_lit(keypair): the result of the service, None on every
\* failure (each is caught and printed).
encrypt_keypair_with_lit(keypair, service) ==
  IF service = "unreachable" THEN NoLit
  ELSE IF service = "not_connected" THEN NoLit
  ELSE IF service = "health_failed" THEN NoLit
  ELSE IF service \in {"timeout", "http_error"} THEN NoLit
  ELSE IF service = "error" THEN NoLit
  ELSE << [ciphertext |-> keypair, data_hash |-> keypair] >>

\* create(options) that gives up when Lit was asked for and did not deliver.
Mgr_create_call_lit_required(pin, agent, enable_lit_protocol, service) ==
  IF Len(pin) = 0 \/ Len(pin) < 4
  THEN /\ ret' = Ret("create", NoId, "ValidationError", TRUE, 0)
       /\ UNCHANGED <<now, deviceAttr, cachedFingerprint, nextKey, dk, calc, sessionKeys,
                      sessionMetadata, pending>>
  ELSE LET c == DeviceBoundSessionKey_create(pin, generate, nextKey)
           lit == IF enable_lit_protocol
                  THEN encrypt_keypair_with_lit(c.key.keypair, service) ELSE NoLit
       IN
       /\ nextKey <= MaxKeys
       /\ cachedFingerprint' = generate
       /\ nextKey' = nextKey + 1
       /\ IF ~c.ok
          THEN /\ ret' = Ret("create", NoId, c.err, TRUE, 0)
               /\ UNCHANGED pending
          ELSE IF enable_lit_protocol /\ lit = NoLit
          THEN /\ ret' = Ret("create", NoId, "LitError", TRUE, 0)
               /\ UNCHANGED pending
          ELSE /\ pending' = pending \cup
                      {Suspended("create", NoId, pin, generate, c.key, agent, enable_lit_protocol, lit)}
               /\ ret' = Ret("create", NoId, "awaiting", TRUE, 0)
       /\ UNCHANGED <<now, deviceAttr, dk, calc, sessionKeys, sessionMetadata>>

\* create(options) that leaves the PIN to the crypto layer alone.
Mgr_create_call_no_length_check(pin, agent, enable_lit_protocol, service) ==
  LET c == DeviceBoundSessionKey_create(pin, generate, nextKey)
      lit == IF enable_lit_protocol
             THEN encrypt_keypair_with_lit(c.key.keypair, service) ELSE NoLit
  IN
  /\ nextKey <= MaxKeys
  /\ cachedFingerprint' = generate
  /\ nextKey' = nextKey + 1
  /\ IF ~c.ok
     THEN /\ ret' = Ret("create", NoId, c.err, TRUE, 0)
          /\ UNCHANGED pending
     ELSE /\ pending' = pending \cup
                 {Suspended("create", NoId, pin, generate, c.key, agent, enable_lit_protocol, lit)}
          /\ ret' = Ret("create", NoId, "awaiting", TRUE, 0)
  /\ UNCHANGED <<now, deviceAttr, dk, calc, sessionKeys, sessionMetadata>>

\* create(options) up to its backend request: the PIN length, the session key,
\* the optional Lit encryption of the fresh keypair, the request.
Mgr_create_call(pin, agent, enable_lit_protocol, service) ==
  IF Len(pin) = 0 \/ Len(pin) < 4
  THEN /\ ret' = Ret("create", NoId, "ValidationError", TRUE, 0)
       /\ UNCHANGED <<now, deviceAttr, cachedFingerprint, nextKey, dk, calc, sessionKeys,
                      sessionMetadata, pending>>
  ELSE LET c == DeviceBoundSessionKey_create(pin, generate, nextKey)
           lit == IF enable_lit_protocol
                  THEN encrypt_keypair_with_lit(c.key.keypair, service) ELSE NoLit
       IN
       /\ nextKey <= MaxKeys
       /\ cachedFingerprint' = generate
       /\ nextKey' = nextKey + 1
       /\ IF ~c.ok
          THEN /\ ret' = Ret("create", NoId, c.err, TRUE, 0)
               /\ UNCHANGED pending
          ELSE /\ pending' = pending \cup
                      {Suspended("create", NoId, pin, generate, c.key, agent, enable_lit_protocol, lit)}
               /\ ret' = Ret("create", NoId, "awaiting", TRUE, 0)
       /\ UNCHANGED <<now, deviceAttr, dk, calc, sessionKeys, sessionMetadata>>

\* What the backend can answer to a create: the request fails, or a
\* session_key_id with a session_wallet (0: field absent or empty) and agent_id.
CreateResponses ==
  [fail : {TRUE}, session_key_id : {"sk1"}, session_wallet : {NoKeypair},
   agent_id : {NoAgent}]
  \cup
  [fail : {FALSE}, session_key_id : Ids, session_wallet : {NoKeypair} \cup KeyVals,
   agent_id : {NoAgent}]

\* create(options) that stores the session key before it compares the wallets.
Mgr_create_resume_stores_first(p, resp) ==
  /\ p \in pending
  /\ p.op = "create"
  /\ pending' = pending \ {p}
  /\ IF resp.fail
     THEN /\ ret' = Ret("create", NoId, "BackendError", TRUE, 0)
          /\ UNCHANGED <<sessionKeys, sessionMetadata>>
     ELSE /\ sessionKeys' = Put(sessionKeys, resp.session_key_id, p.key)
          /\ sessionMetadata' =
               Put(sessionMetadata, resp.session_key_id,
                   IF resp.agent_id = NoAgent THEN p.agent ELSE resp.agent_id)
          /\ ret' = Ret("create", resp.session_key_id,
                        IF resp.session_wallet # NoKeypair
                           /\ resp.session_wallet # p.key.encrypted.public_key
                        THEN "ConflictError" ELSE "ok", TRUE, 0)
  /\ UNCHANGED <<now, deviceAttr, cachedFingerprint, nextKey, dk, calc>>

\* create(options) from the backend's answer on.
Mgr_create_resume(p, resp) ==
  /\ p \in pending
  /\ p.op = "create"
  /\ pending' = pending \ {p}
  /\ IF resp.fail
     THEN /\ ret' = Ret("create", NoId, "BackendError", TRUE, 0)
          /\ UNCHANGED <<sessionKeys, sessionMetadata>>
     ELSE IF resp.session_wallet # NoKeypair
             /\ resp.session_wallet # p.key.encrypted.public_key
     THEN /\ ret' = Ret("create", resp.session_key_id, "ConflictError", TRUE, 0)
          /\ UNCHANGED <<sessionKeys, sessionMetadata>>
     ELSE /\ sessionKeys' = Put(sessionKeys, resp.session_key_id, p.key)
          /\ sessionMetadata' =
               Put(sessionMetadata, resp.session_key_id,
                   IF resp.agent_id = NoAgent THEN p.agent ELSE resp.agent_id)
          /\ ret' = Ret("create", resp.session_key_id, "ok", TRUE, 0)
  /\ UNCHANGED <<now, deviceAttr, cachedFingerprint, nextKey, dk, calc>>

\* load(session_key_id, pin) up to its backend request.
Mgr_load_call(id, pin) ==
  /\ cachedFingerprint' = generate
  /\ pending' = pending \cup {Suspended("load", id, pin, generate, NoKey, NoAgent, FALSE, NoLit)}
  /\ ret' = Ret("load", id, "awaiting", TRUE, 0)
  /\ UNCHANGED <<now, deviceAttr, nextKey, dk, calc, sessionKeys, sessionMetadata>>

\* The blobs a backend can hold: a keypair sealed under some PIN on some device
\* (the caller's PIN and device, another device, another PIN).
Blobs ==
  {[key |-> DeriveKey(s[1], s[2]), secret |-> kp] :
     s \in {<<PinA, "fpA">>, <<PinA, "fpB">>, <<PinB, "fpA">>}, kp \in KeyVals}
LoadResponses ==
  [fail : {TRUE}, device_fingerprint_valid : {TRUE},
   blob : {[key |-> DeriveKey(PinA, "fpA"), secret |-> 1]}]
  \cup
  [fail : {FALSE}, device_fingerprint_valid : BOOLEAN, blob : Blobs]

\* load(session_key_id, pin) that never reads device_fingerprint_valid.
Mgr_load_resume_ignores_flag(p, resp) ==
  /\ p \in pending
  /\ p.op = "load"
  /\ pending' = pending \ {p}
  /\ IF resp.fail
     THEN /\ ret' = Ret("load", p.id, "BackendError", TRUE, 0)
          /\ UNCHANGED sessionKeys
     ELSE LET encrypted == [encrypted_data |-> resp.blob, public_key |-> NoKeypair,
                            device_fingerprint |-> p.fp]
              d == Decrypt(encrypted, p.pin, p.fp)
          IN IF ~d.ok
             THEN /\ ret' = Ret("load", p.id, d.err, TRUE, 0)
                  /\ UNCHANGED sessionKeys
             ELSE /\ sessionKeys' =
                       Put(sessionKeys, p.id,
                           Key(NoKeypair, [encrypted EXCEPT !.public_key = d.kp], p.fp,
                               NoKeypair, NoExpiry))
                  /\ ret' = Ret("load", p.id, "ok", TRUE, 0)
  /\ UNCHANGED <<now, deviceAttr, cachedFingerprint, nextKey, dk, calc, sessionMetadata>>

\* load(session_key_id, pin) that keeps the keypair it decrypted in the instance.
Mgr_load_resume_keeps_keypair(p, resp) ==
  /\ p \in pending
  /\ p.op = "load"
  /\ pending' = pending \ {p}
  /\ IF resp.fail
     THEN /\ ret' = Ret("load", p.id, "BackendError", TRUE, 0)
          /\ UNCHANGED sessionKeys
     ELSE IF ~resp.device_fingerprint_valid
     THEN /\ ret' = Ret("load", p.id, "DeviceMismatchError", TRUE, 0)
          /\ UNCHANGED sessionKeys
     ELSE LET encrypted == [encrypted_data |-> resp.blob, public_key |-> NoKeypair,
                            device_fingerprint |-> p.fp]
              d == Decrypt(encrypted, p.pin, p.fp)
          IN IF ~d.ok
             THEN /\ ret' = Ret("load", p.id, d.err, TRUE, 0)
                  /\ UNCHANGED sessionKeys
             ELSE /\ sessionKeys' =
                       Put(sessionKeys, p.id,
                           Key(d.kp, [encrypted EXCEPT !.public_key = d.kp], p.fp,
                               NoKeypair, NoExpiry))
                  /\ ret' = Ret("load", p.id, "ok", TRUE, 0)
  /\ UNCHANGED <<now, deviceAttr, cachedFingerprint, nextKey, dk, calc, sessionMetadata>>

\* load(session_key_id, pin) from the backend's answer on.
Mgr_load_resume(p, resp) ==
  /\ p \in pending
  /\ p.op = "load"
  /\ pending' = pending \ {p}
  /\ IF resp.fail
     THEN /\ ret' = Ret("load", p.id, "BackendError", TRUE, 0)
          /\ UNCHANGED sessionKeys
     ELSE IF ~resp.device_fingerprint_valid
     THEN /\ ret' = Ret("load", p.id, "DeviceMismatchError", TRUE, 0)
          /\ UNCHANGED sessionKeys
     ELSE LET encrypted == [encrypted_data |-> resp.blob, public_key |-> NoKeypair,
                            device_fingerprint |-> p.fp]
              d == Decrypt(encrypted, p.pin, p.fp)
          IN IF ~d.ok
             THEN /\ ret' = Ret("load", p.id, d.err, TRUE, 0)
                  /\ UNCHANGED sessionKeys
             ELSE /\ sessionKeys' =
                       Put(sessionKeys, p.id,
                           Key(NoKeypair, [encrypted EXCEPT !.public_key = d.kp], p.fp,
                               NoKeypair, NoExpiry))
                  /\ ret' = Ret("load", p.id, "ok", TRUE, 0)
  /\ UNCHANGED <<now, deviceAttr, cachedFingerprint, nextKey, dk, calc, sessionMetadata>>

\* revoke(session_key_id) that clears the local state before it asks the backend.
Mgr_revoke_call_removes_first(id) ==
  /\ pending' = pending \cup {Suspended("revoke", id, <<>>, NoFp, NoKey, NoAgent, FALSE, NoLit)}
  /\ sessionKeys' = Pop(sessionKeys, id)
  /\ sessionMetadata' = Pop(sessionMetadata, id)
  /\ ret' = Ret("revoke", id, "awaiting", FALSE, 0)
  /\ UNCHANGED <<now, deviceAttr, cachedFingerprint, nextKey, dk, calc>>

\* revoke(session_key_id) up to its backend request.
Mgr_revoke_call(id) ==
  /\ pending' = pending \cup {Suspended("revoke", id, <<>>, NoFp, NoKey, NoAgent, FALSE, NoLit)}
  /\ ret' = Ret("revoke", id, "awaiting", FALSE, 0)
  /\ UNCHANGED <<now, deviceAttr, cachedFingerprint, nextKey, dk, calc, sessionKeys, sessionMetadata>>

\* revoke(session_key_id) from the backend's answer on.
Mgr_revoke_resume(p, fail) ==
  /\ p \in pending
  /\ p.op = "revoke"
  /\ pending' = pending \ {p}
  /\ IF fail
     THEN /\ ret' = Ret("revoke", p.id, "BackendError", FALSE, 0)
          /\ UNCHANGED <<sessionKeys, sessionMetadata>>
     ELSE /\ sessionKeys' = Pop(sessionKeys, p.id)
          /\ sessionMetadata' = Pop(sessionMetadata, p.id)
          /\ ret' = Ret("revoke", p.id, "ok", FALSE, 0)
  /\ UNCHANGED <<now, deviceAttr, cachedFingerprint, nextKey, dk, calc>>

\* What POST /api/v1/ai/session-keys/payment can come back with: a failure, or
\* a dict with each key there or not.
PaymentResponses ==
  [fail : {FALSE}, payment_id : {Absent, <<"pay1">>}, signature : {Absent, <<"sig1">>},
   status : {Absent, <<"confirmed">>}]
  \cup [fail : {TRUE}, payment_id : {Absent}, signature : {Absent}, status : {Absent}]

\* PaymentResult(payment_id, signature, status) built from the response.
PaymentResult(resp) ==
  [payment_id |-> Get(resp.payment_id, ""), signature |-> Get(resp.signature, ""),
   status |-> Get(resp.status, "pending")]

\* make_payment(session_key_id, ...) that first fetches the keypair of the id.
Mgr_make_payment_call_requires_key(id) ==
  IF id \in DOMAIN sessionKeys /\ is_unlocked(sessionKeys[id], now)
  THEN /\ pending' = pending \cup
                       {Suspended("make_payment", id, <<>>, NoFp, NoKey, NoAgent, FALSE, NoLit)}
       /\ ret' = Ret("make_payment", id, "awaiting", FALSE, 0)
       /\ UNCHANGED <<now, deviceAttr, cachedFingerprint, nextKey, dk, calc, sessionKeys,
                      sessionMetadata>>
  ELSE /\ ret' = Ret("make_payment", id,
                     IF id \in DOMAIN sessionKeys THEN "NotUnlockedError" ELSE "NotLoadedError",
                     FALSE, 0)
       /\ UNCHANGED <<now, deviceAttr, cachedFingerprint, nextKey, dk, calc, sessionKeys,
                      sessionMetadata, pending>>

\* make_payment(session_key_id, amount, recipient, description) up to its
\* backend request.
Mgr_make_payment_call(id) ==
  /\ pending' = pending \cup
                  {Suspended("make_payment", id, <<>>, NoFp, NoKey, NoAgent, FALSE, NoLit)}
  /\ ret' = Ret("make_payment", id, "awaiting", FALSE, 0)
  /\ UNCHANGED <<now, deviceAttr, cachedFingerprint, nextKey, dk, calc, sessionKeys,
                 sessionMetadata>>

\* make_payment from the backend's answer on; calc holds the PaymentResult
\* handed back.
Mgr_make_payment_resume(p, resp) ==
  /\ p \in pending
  /\ p.op = "make_payment"
  /\ pending' = pending \ {p}
  /\ IF resp.fail
     THEN /\ ret' = Ret("make_payment", p.id, "BackendError", FALSE, 0)
          /\ calc' = Idle
     ELSE /\ ret' = Ret("make_payment", p.id, "ok", FALSE, 0)
          /\ calc' = [fn |-> "make_payment", result |-> PaymentResult(resp)]
  /\ UNCHANGED <<now, deviceAttr, cachedFingerprint, nextKey, dk, sessionKeys, sessionMetadata>>

\* ------------------------------------------------ a key used directly
\* The caller's own DeviceBoundSessionKey, dk: the methods called on the
\* instance itself, as the manager calls them on a registered one.
DkFrame == UNCHANGED <<now, deviceAttr, nextKey, sessionKeys, sessionMetadata, pending, calc>>

\* dk = await DeviceBoundSessionKey.create(pin, ...)
Key_create(pin) ==
  LET c == DeviceBoundSessionKey_create(pin, generate, nextKey) IN
  /\ nextKey <= MaxKeys
  /\ cachedFingerprint' = generate
  /\ nextKey' = nextKey + 1
  /\ dk' = IF c.ok THEN c.key ELSE dk
  /\ ret' = Ret("dk.create", NoId, IF c.ok THEN "ok" ELSE c.err, TRUE, 0)
  /\ UNCHANGED <<now, deviceAttr, sessionKeys, sessionMetadata, pending, calc>>

\* dk.unlock_with_pin() that decrypts against the fingerprint kept in the
\* instance instead of asking the generator.
Key_unlock_with_pin_stored_fingerprint(pin, ttl) ==
  LET u == unlock_with_pin(dk, pin, ttl, now, dk.device_fingerprint) IN
  /\ UNCHANGED cachedFingerprint
  /\ dk' = u.key
  /\ ret' = Ret("dk.unlock_with_pin", NoId, u.outcome, TRUE, ttl)
  /\ DkFrame

\* dk.unlock_with_pin(pin, cache_ttl_minutes)
Key_unlock_with_pin(pin, ttl) ==
  LET u == unlock_with_pin(dk, pin, ttl, now, generate) IN
  /\ cachedFingerprint' = IF u.gen THEN generate ELSE cachedFingerprint
  /\ dk' = u.key
  /\ ret' = Ret("dk.unlock_with_pin", NoId, u.outcome, TRUE, ttl)
  /\ DkFrame

\* dk.lock()
Key_lock ==
  /\ dk' = lock(dk)
  /\ ret' = Ret("dk.lock", NoId, "ok", FALSE, 0)
  /\ UNCHANGED cachedFingerprint
  /\ DkFrame

\* dk.get_keypair(pin) and dk.sign(message, pin), which signs with the keypair
\* get_keypair(pin) returns.
KeyWithKeypair(op, optPin) ==
  LET g == get_keypair(dk, optPin, now, generate) IN
  /\ cachedFingerprint' = IF g.gen THEN generate ELSE cachedFingerprint
  /\ dk' = g.key
  /\ ret' = Ret(op, NoId, g.outcome, optPin # NoPin, 0)
  /\ DkFrame

Key_get_keypair(optPin) == KeyWithKeypair("dk.get_keypair", optPin)
Key_sign(optPin) == KeyWithKeypair("dk.sign", optPin)

\* ------------------------------------------------ delegation messages
\* A float amount of whole cents, held as its number of cents.
AmountsCents == {5, 50, 1234, 10000, 100000}
ExpiresAts == {"2025-01-01T00:00:00Z", "2026-06-30T12:00:00Z"}

\* One decimal digit as text.
DigitStr(d) == ToString(d)

\* f"{x}" of a float: the shortest decimal that reads back as x, with at
\* least one digit after the point (100.0, 0.5, 12.34, 0.05).
FormatFloat(cents) ==
  LET whole == cents \div 100
      frac == cents % 100
  IN ToString(whole) \o "." \o
       (IF frac % 10 = 0 THEN DigitStr(frac \div 10)
        ELSE DigitStr(frac \div 10) \o DigitStr(frac % 10))

\* f"{x:.2f}" of a float: always two digits after the point.
Format2f(cents) ==
  ToString(cents \div 100) \o "." \o DigitStr((cents % 100) \div 10)
    \o DigitStr(cents % 10)

\* crypto.create_delegation_message, the text sign_delegation signs.
create_delegation_message(session_key_id, max_amount_usd, expires_at) ==
  "I authorize autonomous delegate for session " \o session_key_id
    \o " to spend up to $" \o FormatFloat(max_amount_usd)
    \o " until " \o expires_at

\* AutonomyManager.create_delegation_message
AutonomyManager_create_delegation_message(session_key_id, max_amount_usd, expires_at) ==
  "I authorize ZendFi autonomous payments:\n"
    \o "Session: " \o session_key_id \o "\n"
    \o "Max Amount: $" \o Format2f(max_amount_usd) \o " USD\n"
    \o "Expires: " \o expires_at \o "\n"
    \o "This signature enables automated transactions up to the specified limit."

\* The text SessionKeysManager.sign_delegation hands to sign_base64.
sign_delegation_message(session_key_id, max_amount_usd, expires_at) ==
  create_delegation_message(session_key_id, max_amount_usd, expires_at)

\* ------------------------------------------------ base58
MaxBytes == 2     \* longest byte string encoded
MaxAttestations == 2   \* longest attestation list a backend sends
MaxCalls == 2          \* payment calls made on one client

\* BASE58_ALPHABET
BASE58_ALPHABET ==
  <<"1", "2", "3", "4", "5", "6", "7", "8", "9",
    "A", "B", "C", "D", "E", "F", "G", "H", "J", "K", "L", "M", "N", "P", "Q", "R",
    "S", "T", "U", "V", "W", "X", "Y", "Z",
    "a", "b", "c", "d", "e", "f", "g", "h", "i", "j", "k", "m", "n", "o", "p", "q",
    "r", "s", "t", "u", "v", "w", "x", "y", "z">>

\* The byte values the inputs are made of, and the inputs.
ByteVals == {0, 1, 57, 58, 255}
ByteStrings == UNION {[1..n -> ByteVals] : n \in 0..MaxBytes}

\* The loop that counts the leading elements of s equal to x.
RECURSIVE LeadingCount(_, _)
LeadingCount(s, x) ==
  IF s = <<>> THEN 0
  ELSE IF Head(s) = x THEN 1 + LeadingCount(Tail(s), x) ELSE 0

\* int.from_bytes(data, "big")
RECURSIVE FromBytes(_)
FromBytes(data) ==
  IF data = <<>> THEN 0
  ELSE FromBytes(SubSeq(data, 1, Len(data) - 1)) * 256 + data[Len(data)]

\* n copies of x
Repeat(x, n) == [i \in 1..n |-> x]

\* while num > 0: num, remainder = divmod(num, 58);
\*                result = BASE58_ALPHABET[remainder] + result
RECURSIVE Base58Digits(_)
Base58Digits(num) ==
  IF num > 0 THEN Base58Digits(num \div 58) \o <<BASE58_ALPHABET[(num % 58) + 1]>>
  ELSE <<>>

\* base58_encode() without the '1' per leading zero byte.
base58_encode_no_prefix(data) == Base58Digits(FromBytes(data))

\* base58_encode(data)
base58_encode(data) ==
  LET leading_zeros == LeadingCount(data, 0)
      num == FromBytes(data)
  IN Repeat("1", leading_zeros) \o Base58Digits(num)

\* BASE58_ALPHABET.index(char)
AlphabetIndex(char) == (CHOOSE i \in 1..Len(BASE58_ALPHABET) : BASE58_ALPHABET[i] = char) - 1

\* for char in s: num = num * 58 + BASE58_ALPHABET.index(char)
RECURSIVE FromBase58(_)
FromBase58(s) ==
  IF s = <<>> THEN 0
  ELSE FromBase58(SubSeq(s, 1, Len(s) - 1)) * 58 + AlphabetIndex(s[Len(s)])

\* while num > 0: num, remainder = divmod(num, 256); result.append(remainder),
\* then reversed
RECURSIVE BytesOf(_)
BytesOf(num) ==
  IF num > 0 THEN BytesOf(num \div 256) \o <<num % 256>> ELSE <<>>

\* base58_decode(s)
base58_decode(s) ==
  LET leading_ones == LeadingCount(s, "1")
      num == FromBase58(s)
  IN Repeat(0, leading_ones) \o BytesOf(num)

\* ------------------------------------------------ AutonomyManager
\* duration_hours must be between 1 and 168 (7 days)
MinDurationHours == 1
MaxDurationHours == 168

\* The character class [A-Za-z0-9+/] of the signature pattern.
Base64Chars ==
  {"A", "B", "C", "D", "E", "F", "G", "H", "I", "J", "K", "L", "M", "N", "O", "P",
   "Q", "R", "S", "T", "U", "V", "W", "X", "Y", "Z", "a", "b", "c", "d", "e", "f",
   "g", "h", "i", "j", "k", "l", "m", "n", "o", "p", "q", "r", "s", "t", "u", "v",
   "w", "x", "y", "z", "0", "1", "2", "3", "4", "5", "6", "7", "8", "9", "+", "/"}

\* The line feed character.
LF == "\n"

\* c is [A-Za-z0-9+/]+=* from its first to its last character.
Base64ThenPadding(c) ==
  \E k \in 1..Len(c) :
    /\ \A i \in 1..k : c[i] \in Base64Chars
    /\ \A i \in (k + 1)..Len(c) : c[i] = "="

\* re.compile(r'^[A-Za-z0-9+/]+=*$').match(sig): "$" matches at the end of
\* the string and also just before a line feed that ends it.
PatternMatches(sig) ==
  \/ Base64ThenPadding(sig)
  \/ /\ Len(sig) > 0
     /\ sig[Len(sig)] = LF
     /\ Base64ThenPadding(SubSeq(sig, 1, Len(sig) - 1))

\* validate_request(request): "ok" when it returns, else the ValueError raised.
validate_request(request) ==
  IF request.max_amount_usd <= 0 THEN "ValueError: max_amount_usd must be positive"
  ELSE IF request.duration_hours < MinDurationHours
          \/ request.duration_hours > MaxDurationHours
  THEN "ValueError: duration_hours must be between 1 and 168 (7 days)"
  ELSE IF request.delegation_signature = <<>>
  THEN "ValueError: delegation_signature is required"
  ELSE IF ~PatternMatches(request.delegation_signature)
  THEN "ValueError: delegation_signature must be base64 encoded"
  ELSE "ok"

\* AutonomousDelegate
AutonomousDelegate(delegate_id, session_key_id, max_amount_usd, spent_usd, remaining_usd, is_active, created_at, expires_at) ==
  [delegate_id |-> delegate_id, session_key_id |-> session_key_id,
   max_amount_usd |-> max_amount_usd, spent_usd |-> spent_usd,
   remaining_usd |-> remaining_usd, is_active |-> is_active,
   created_at |-> created_at, expires_at |-> expires_at]

\* datetime.now().isoformat()
NowIso == "now"

\* enable() that posts the request first and validates it afterwards.
AutonomyManager_enable_posts_first(session_key_id, request, response) ==
  LET v == validate_request(request) IN
  IF response.fail THEN [outcome |-> "APIError", sent |-> TRUE, delegate |-> <<>>]
  ELSE IF v # "ok" THEN [outcome |-> v, sent |-> TRUE, delegate |-> <<>>]
  ELSE IF response.delegate_id = Absent
  THEN [outcome |-> "KeyError: delegate_id", sent |-> TRUE, delegate |-> <<>>]
  ELSE [outcome |-> "ok", sent |-> TRUE,
        delegate |-> << AutonomousDelegate(
           response.delegate_id[1],
           Get(response.session_key_id, session_key_id),
           Get(response.max_amount_usd, request.max_amount_usd),
           Get(response.spent_usd, 0),
           Get(response.remaining_usd, request.max_amount_usd),
           Get(response.is_active, TRUE),
           Get(response.created_at, NowIso),
           Get(response.expires_at, "")) >>]

\* enable(session_key_id, request) when the backend answers response.
\* [outcome: "ok" or what is raised; sent: whether the request went out;
\* delegate: <<the AutonomousDelegate returned>>]
AutonomyManager_enable(session_key_id, request, response) ==
  LET v == validate_request(request) IN
  IF v # "ok" THEN [outcome |-> v, sent |-> FALSE, delegate |-> <<>>]
  ELSE IF response.fail THEN [outcome |-> "APIError", sent |-> TRUE, delegate |-> <<>>]
  ELSE IF response.delegate_id = Absent
  THEN [outcome |-> "KeyError: delegate_id", sent |-> TRUE, delegate |-> <<>>]
  ELSE [outcome |-> "ok", sent |-> TRUE,
        delegate |-> << AutonomousDelegate(
           response.delegate_id[1],
           Get(response.session_key_id, session_key_id),
           Get(response.max_amount_usd, request.max_amount_usd),
           Get(response.spent_usd, 0),
           Get(response.remaining_usd, request.max_amount_usd),
           Get(response.is_active, TRUE),
           Get(response.created_at, NowIso),
           Get(response.expires_at, "")) >>]

\* A dict is truthy when it has a key.
HasKey(d) == \E k \in DOMAIN d : d[k] # Absent

\* get_status(session_key_id) when the backend answers response.
\* [outcome; enabled: autonomous_mode_enabled of the status; delegate: <<the
\* delegate>> or <<>> for None]
AutonomyManager_get_status(session_key_id, response) ==
  IF response.fail THEN [outcome |-> "APIError", enabled |-> FALSE, delegate |-> <<>>]
  ELSE IF Get(response.autonomous_mode_enabled, FALSE)
          /\ response.delegate # Absent /\ HasKey(response.delegate[1])
  THEN LET d == response.delegate[1] IN
       IF d.delegate_id = Absent
       THEN [outcome |-> "KeyError: delegate_id", enabled |-> FALSE, delegate |-> <<>>]
       ELSE [outcome |-> "ok", enabled |-> TRUE,
             delegate |-> << AutonomousDelegate(
                d.delegate_id[1],
                Get(d.session_key_id, session_key_id),
                Get(d.max_amount_usd, 0),
                Get(d.spent_usd, 0),
                Get(d.remaining_usd, 0),
                Get(d.is_active, FALSE),
                Get(d.created_at, ""),
                Get(d.expires_at, "")) >>]
  ELSE [outcome |-> "ok", enabled |-> Get(response.autonomous_mode_enabled, FALSE),
        delegate |-> <<>>]

\* get_attestations(delegate_id) when the backend answers response: each item
\* of response["attestations"] rebuilt field by field, in the order received.
\* [outcome; attestations: the list of the AttestationAuditResponse]
AutonomyManager_get_attestations(delegate_id, response) ==
  IF response.fail THEN [outcome |-> "APIError", attestations |-> <<>>]
  ELSE [outcome |-> "ok",
        attestations |->
          [i \in 1..Len(response.attestations) |->
             [delegate_id |-> response.attestations[i].delegate_id,
              spent_usd |-> response.attestations[i].spent_usd,
              limit_usd |-> response.attestations[i].limit_usd,
              remaining_after_usd |-> response.attestations[i].remaining_after_usd]]]

\* ------------------------------------------------ ZendFiPaymentTool
\* The exception classes a payment can end in, each with its base class:
\* the client's own (client.py), two built-in ones, and the cancellation of
\* the task, which derives from BaseException.
ExceptionBase ==
  [AuthenticationError |-> "ZendFiAPIError", SessionKeyNotFoundError |-> "ZendFiAPIError",
   InsufficientBalanceError |-> "ZendFiAPIError", SessionKeyExpiredError |-> "ZendFiAPIError",
   RateLimitError |-> "ZendFiAPIError", ValidationError |-> "ZendFiAPIError",
   ZendFiAPIError |-> "Exception", ValueError |-> "Exception", KeyError |-> "Exception",
   Exception |-> "BaseException", CancelledError |-> "BaseException"]

\* isinstance(e, cls) for an exception of class e.
RECURSIVE IsInstance(_, _)
IsInstance(e, cls) ==
  IF e = cls THEN TRUE
  ELSE IF e \notin DOMAIN ExceptionBase THEN FALSE
  ELSE IsInstance(ExceptionBase[e], cls)

\* The text of a successful payment, line by line.
SuccessText(amount_usd, result) ==
  <<"Payment Successful!",
    "Amount: $" \o Format2f(amount_usd) \o " USD",
    "Transaction: " \o (IF result.transaction_signature = Absent THEN "pending"
                        ELSE result.transaction_signature[1] \o "..."),
    "Payment ID: " \o result.payment_id,
    "Status: " \o result.status>>
  \o (IF result.gasless_used THEN <<"Gasless: Yes (ZendFi paid the network fees)">> ELSE <<>>)
  \o (IF result.receipt_url # "" THEN <<"Receipt: " \o result.receipt_url>> ELSE <<>>)

\* _arun without the last handler, except Exception.
PaymentTool_arun_no_catch_all(amount_usd, client) ==
  IF client.raises = "none"
  THEN [raised |-> "none", text |-> SuccessText(amount_usd, client.result)]
  ELSE IF IsInstance(client.raises, "InsufficientBalanceError")
  THEN [raised |-> "none",
        text |-> <<"Payment Failed: Insufficient Balance",
                   "You tried to pay $" \o Format2f(amount_usd)
                     \o " but don't have enough funds.">>]
  ELSE IF IsInstance(client.raises, "SessionKeyExpiredError")
  THEN [raised |-> "none", text |-> <<"Payment Failed: Session Key Expired">>]
  ELSE IF IsInstance(client.raises, "SessionKeyNotFoundError")
  THEN [raised |-> "none", text |-> <<"Payment Failed: No Session Key">>]
  ELSE IF IsInstance(client.raises, "ZendFiAPIError")
  THEN [raised |-> "none", text |-> <<"Payment Failed: " \o client.message>>]
  ELSE [raised |-> client.raises, text |-> <<>>]

\* ZendFiPaymentTool._arun(recipient, amount_usd, description) when the client
\* (its construction, smart_payment, the reading of the result) ends as
\* client says.  [raised: "none" or the exception that leaves _arun; text: the
\* string returned, line by line]
PaymentTool_arun(amount_usd, client) ==
  IF client.raises = "none"
  THEN [raised |-> "none", text |-> SuccessText(amount_usd, client.result)]
  ELSE IF IsInstance(client.raises, "InsufficientBalanceError")
  THEN [raised |-> "none",
        text |-> <<"Payment Failed: Insufficient Balance",
                   "You tried to pay $" \o Format2f(amount_usd)
                     \o " but don't have enough funds.">>]
  ELSE IF IsInstance(client.raises, "SessionKeyExpiredError")
  THEN [raised |-> "none", text |-> <<"Payment Failed: Session Key Expired">>]
  ELSE IF IsInstance(client.raises, "SessionKeyNotFoundError")
  THEN [raised |-> "none", text |-> <<"Payment Failed: No Session Key">>]
  ELSE IF IsInstance(client.raises, "ZendFiAPIError")
  THEN [raised |-> "none", text |-> <<"Payment Failed: " \o client.message>>]
  ELSE IF IsInstance(client.raises, "Exception")
  THEN [raised |-> "none", text |-> <<"Unexpected Error: " \o client.message>>]
  ELSE [raised |-> client.raises, text |-> <<>>]

\* ------------------------------------------------ ZendFiClient payments
\* max_retries: int = 3
MaxRetries == 3

\* The characters of uuid4().hex.
HexChars == {"0", "1", "2", "3", "4", "5", "6", "7", "8", "9", "a", "b", "c", "d", "e", "f"}

\* uuid4().hex values, 32 characters each, that differ in their first 16.
UuidHexes ==
  {<<"0", "a", "1", "b", "2", "c", "3", "d", "4", "e", "5", "f", "4", "a", "6", "b", "8", "c", "7", "d", "0", "e", "1", "f", "2", "a", "3", "b", "4", "c", "5", "d">>,
   <<"9", "f", "8", "e", "7", "d", "6", "c", "5", "b", "4", "a", "4", "9", "3", "8", "8", "a", "7", "b", "6", "c", "5", "d", "4", "e", "3", "f", "2", "a", "1", "b">>,
   <<"1", "3", "5", "7", "9", "b", "d", "f", "0", "2", "4", "6", "4", "a", "c", "e", "8", "a", "c", "e", "0", "2", "4", "6", "8", "b", "d", "f", "1", "3", "5", "7">>}

\* Keys a caller can pass: None, the empty string, a key of its own.
CallerKeys == {Absent, << <<>> >>, << <<"o", "r", "d", "e", "r", "4", "2">> >>}

\* smart_payment: the idempotency key it hands to _request, the caller's when
\* that is a non-empty string, else f"pay_{uuid.uuid4().hex[:16]}".
smart_payment_key(idempotency_key, uuid_hex) ==
  IF idempotency_key = Absent \/ idempotency_key[1] = <<>>
  THEN <<"p", "a", "y", "_">> \o SubSeq(uuid_hex, 1, 16)
  ELSE idempotency_key[1]

\* _request that sends the idempotency header with its first attempt only.
request_headers_first_attempt_only(idempotency_key, attempt) ==
  IF idempotency_key # <<>> /\ attempt = 0 THEN <<idempotency_key>> ELSE Absent

\* _request: the X-Idempotency-Key header of attempt number attempt, <<key>>
\* or Absent; the headers are built once, before the retry loop.
request_headers(idempotency_key, attempt) ==
  IF idempotency_key # <<>> THEN <<idempotency_key>> ELSE Absent

\* A client between payment calls.  done: the calls that ended, each with the
\* key smart_payment chose and the header of every attempt; drawn: the uuids
\* handed out so far.
PaymentsIdle ==
  [fn |-> "payments", phase |-> "idle", via |-> "", caller_key |-> Absent, key |-> <<>>,
   attempt |-> 0, sent |-> <<>>, done |-> <<>>, drawn |-> {}]

\* The call that is running, as a record of done.
FinishedCall(c, sent, outcome) ==
  [via |-> c.via, caller_key |-> c.caller_key, key |-> c.key, sent |-> sent,
   outcome |-> outcome]

\* smart_payment(...), pay(...) or the legacy make_payment(...) is called:
\* pay first needs a session, which fails without a wallet; then the key is
\* chosen and _request entered.
Pay_call(via, idempotency_key, uuid_hex, wallet) ==
  /\ calc.fn = "payments" /\ calc.phase = "idle"
  /\ Len(calc.done) < MaxCalls
  /\ uuid_hex \notin calc.drawn
  /\ IF via = "pay" /\ ~wallet
     THEN calc' = [calc EXCEPT !.done = Append(@,
                      [via |-> via, caller_key |-> idempotency_key, key |-> <<>>,
                       sent |-> <<>>, outcome |-> "ValueError"])]
     ELSE calc' = [calc EXCEPT !.phase = "request", !.via = via,
                               !.caller_key = idempotency_key,
                               !.key = smart_payment_key(idempotency_key, uuid_hex),
                               !.attempt = 0, !.sent = <<>>,
                               !.drawn = IF idempotency_key = Absent \/ idempotency_key[1] = <<>>
                                         THEN @ \cup {uuid_hex} ELSE @]
  /\ UNCHANGED <<now, deviceAttr, cachedFingerprint, nextKey, dk, sessionKeys,
                 sessionMetadata, pending, ret>>

\* One attempt of _request's loop: the POST goes out with the headers; a
\* timeout or connection error is retried until max_retries attempts are used
\* up, an answer or an error status ends the call.
Pay_attempt(transport) ==
  /\ calc.fn = "payments" /\ calc.phase = "request"
  /\ calc.attempt < MaxRetries
  /\ LET sent == Append(calc.sent, request_headers(calc.key, calc.attempt)) IN
     IF transport \in {"TimeoutException", "ConnectError"}
     THEN IF calc.attempt + 1 < MaxRetries
          THEN calc' = [calc EXCEPT !.attempt = @ + 1, !.sent = sent]
          ELSE calc' = [calc EXCEPT !.phase = "idle", !.sent = <<>>, !.attempt = 0,
                           !.done = Append(@, FinishedCall(calc, sent, "ZendFiAPIError"))]
     ELSE calc' = [calc EXCEPT !.phase = "idle", !.sent = <<>>, !.attempt = 0,
                      !.done = Append(@, FinishedCall(calc, sent,
                                  IF transport = "ok" THEN "ok" ELSE "ZendFiAPIError"))]
  /\ UNCHANGED <<now, deviceAttr, cachedFingerprint, nextKey, dk, sessionKeys,
                 sessionMetadata, pending, ret>>

\* ------------------------------------------------ ZendFiClient._request
\* The largest max_retries a client is constructed with.
MaxRetriesArg == 3

\* wait_time = 0.5 * (2 ** attempt), in milliseconds.
BackoffMs == 500
wait_time(attempt) == BackoffMs * 2^attempt

\* str.lower() over the letters that occur, and `sub in s`.
UpperToLower == [S |-> "s", E |-> "e", I |-> "i", O |-> "o", N |-> "n"]
Lower(s) ==
  [i \in 1..Len(s) |-> IF s[i] \in DOMAIN UpperToLower THEN UpperToLower[s[i]] ELSE s[i]]
Contains(sub, s) ==
  \E i \in 1..(Len(s) - Len(sub) + 1) : SubSeq(s, i, i + Len(sub) - 1) = sub

\* "session", "Unknown error", and the messages and endpoint tails in use.
SessionWord == <<"s", "e", "s", "s", "i", "o", "n">>
UnknownError == <<"U", "n", "k", "n", "o", "w", "n", " ", "e", "r", "r", "o", "r">>
MsgSession == <<"S", "e", "s", "s", "i", "o", "n", " ", "g", "o", "n", "e">>
MsgFunds == <<"n", "o", " ", "f", "u", "n", "d", "s">>
EndpointSessions == <<"/", "a", "i", "/", "s", "e", "s", "s", "i", "o", "n", "s">>
EndpointPayment == <<"/", "a", "i", "/", "s", "m", "a", "r", "t", "-", "p", "a", "y", "m", "e", "n", "t">>
Endpoints == {EndpointSessions, EndpointPayment}

\* {} and the JSON objects of an error response, each key there or not.
EmptyDict == [message |-> Absent, error |-> Absent, code |-> Absent, error_code |-> Absent]
ErrorDicts ==
  [message : {Absent, <<MsgSession>>, <<MsgFunds>>}, error : {Absent, <<MsgFunds>>},
   code : {Absent, <<"">>, <<"INSUFFICIENT_BALANCE">>, <<"SESSION_EXPIRED">>},
   error_code : {Absent, <<"INSUFFICIENT_BALANCE">>, <<"SESSION_EXPIRED">>}]

\* The body of a response: no text, text that is not JSON, or a JSON object.
Body(text, json) == [text |-> text, json |-> json]
ResponseBodies ==
  {Body("empty", EmptyDict), Body("not_json", EmptyDict)}
  \cup {Body("json", d) : d \in ErrorDicts}

\* A value of dict.get(key) is truthy when it is there and not empty.
Truthy(opt, empty) == opt # Absent /\ opt[1] # empty

\* message and error_code as _handle_error_response reads them from a body
\* that is empty, not JSON, or a JSON object.
error_message(body) ==
  LET error_data == IF body.text \in {"empty", "not_json"} THEN EmptyDict ELSE body.json IN
  IF Truthy(error_data.message, <<>>) THEN error_data.message[1]
  ELSE IF Truthy(error_data.error, <<>>) THEN error_data.error[1]
  ELSE UnknownError
error_code(body) ==
  LET error_data == IF body.text \in {"empty", "not_json"} THEN EmptyDict ELSE body.json IN
  IF Truthy(error_data.code, "") THEN error_data.code ELSE error_data.error_code

\* _handle_error_response(response, endpoint): the class of the exception it
\* raises for a response of that status and body.
handle_error_response(status, body, endpoint) ==
  LET message == error_message(body)
      code == error_code(body) IN
  IF status = 401 THEN "AuthenticationError"
  ELSE IF status = 404
  THEN IF Contains(SessionWord, Lower(message)) \/ Contains(SessionWord, Lower(endpoint))
       THEN "SessionKeyNotFoundError"
       ELSE "ZendFiAPIError"
  ELSE IF status = 429 THEN "RateLimitError"
  ELSE IF status = 400 THEN "ValidationError"
  ELSE IF code = <<"INSUFFICIENT_BALANCE">> THEN "InsufficientBalanceError"
  ELSE IF code = <<"SESSION_EXPIRED">> THEN "SessionKeyExpiredError"
  ELSE "ZendFiAPIError"

\* What one attempt can meet: a timeout, a refused connection, another
\* transport failure, or a response with a status and a body.
Transient == {"TimeoutException", "ConnectError"}
NoBody == Body("none", EmptyDict)
RequestBodies ==
  {Body("empty", EmptyDict), Body("not_json", EmptyDict),
   Body("json", [message |-> <<MsgFunds>>, error |-> Absent,
                 code |-> <<"INSUFFICIENT_BALANCE">>, error_code |-> Absent])}
Transports ==
  [kind : Transient \cup {"ReadError"}, status : {0}, body : {NoBody}]
  \cup [kind : {"response"}, status : {200, 302, 400, 402, 404, 500}, body : RequestBodies]

Methods == {"GET", "POST", "DELETE", "PUT"}

\* A client with no _request running.  events: what each attempt of the last
\* call met; waits: the sleeps between them; raised: "" while running and
\* when the call returned; why: which raise statement it was; returned: <<the
\* dict returned>>.
RequestIdle ==
  [fn |-> "request", phase |-> "idle", max_retries |-> 0, method |-> "", endpoint |-> <<>>,
   attempt |-> 0, events |-> <<>>, waits |-> <<>>, raised |-> "", why |-> "",
   returned |-> <<>>]

\* _request(method, endpoint) is entered on a client built with max_retries:
\* with no iteration to make it raises at once, and so it does, from the
\* first iteration, for a method it does not know.
Request_call(max_retries, method, endpoint) ==
  /\ calc.fn = "request" /\ calc.phase \in {"idle", "done"}
  /\ LET c == [RequestIdle EXCEPT !.max_retries = max_retries, !.method = method,
                                   !.endpoint = endpoint] IN
     calc' = IF max_retries = 0
             THEN [c EXCEPT !.phase = "done", !.raised = "ZendFiAPIError", !.why = "exhausted"]
             ELSE IF method \notin {"GET", "POST", "DELETE"}
             THEN [c EXCEPT !.phase = "done", !.raised = "ZendFiAPIError", !.why = "unexpected"]
             ELSE [c EXCEPT !.phase = "loop"]
  /\ UNCHANGED <<now, deviceAttr, cachedFingerprint, nextKey, dk, sessionKeys,
                 sessionMetadata, pending, ret>>

\* One iteration that also comes back for more after a 5xx answer.
request_iteration_retries_5xx(c, transport) ==
  LET events == Append(c.events, transport)
      retry == transport.kind \in Transient
                 \/ (transport.kind = "response" /\ transport.status >= 500) IN
  IF retry
  THEN IF c.attempt < c.max_retries - 1
       THEN [c EXCEPT !.events = events, !.waits = Append(@, wait_time(c.attempt)),
                      !.attempt = @ + 1]
       ELSE [c EXCEPT !.events = events, !.attempt = @ + 1, !.phase = "done",
                      !.raised = "ZendFiAPIError", !.why = "exhausted"]
  ELSE IF transport.kind # "response"
  THEN [c EXCEPT !.events = events, !.phase = "done",
                 !.raised = "ZendFiAPIError", !.why = "unexpected"]
  ELSE IF transport.status >= 400
  THEN [c EXCEPT !.events = events, !.phase = "done", !.why = "classified",
                 !.raised = handle_error_response(transport.status, transport.body, c.endpoint)]
  ELSE IF transport.body.text = "not_json"
  THEN [c EXCEPT !.events = events, !.phase = "done",
                 !.raised = "ZendFiAPIError", !.why = "unexpected"]
  ELSE [c EXCEPT !.events = events, !.phase = "done",
                 !.returned = << IF transport.body.text = "empty" THEN EmptyDict
                                 ELSE transport.body.json >>]

\* One iteration of `for attempt in range(self.max_retries)`: the request goes
\* out; a timeout or connection error sleeps wait_time (not after the last
\* attempt) and goes on, and past the last attempt raises; any other exception
\* is wrapped; a status from 400 up raises what _handle_error_response
\* chooses; otherwise the parsed body, {} for an empty one, is returned.
request_iteration(c, transport) ==
  LET events == Append(c.events, transport) IN
  IF transport.kind \in Transient
  THEN IF c.attempt < c.max_retries - 1
       THEN [c EXCEPT !.events = events, !.waits = Append(@, wait_time(c.attempt)),
                      !.attempt = @ + 1]
       ELSE [c EXCEPT !.events = events, !.attempt = @ + 1, !.phase = "done",
                      !.raised = "ZendFiAPIError", !.why = "exhausted"]
  ELSE IF transport.kind # "response"
  THEN [c EXCEPT !.events = events, !.phase = "done",
                 !.raised = "ZendFiAPIError", !.why = "unexpected"]
  ELSE IF transport.status >= 400
  THEN [c EXCEPT !.events = events, !.phase = "done", !.why = "classified",
                 !.raised = handle_error_response(transport.status, transport.body, c.endpoint)]
  ELSE IF transport.body.text = "not_json"
  THEN [c EXCEPT !.events = events, !.phase = "done",
                 !.raised = "ZendFiAPIError", !.why = "unexpected"]
  ELSE [c EXCEPT !.events = events, !.phase = "done",
                 !.returned = << IF transport.body.text = "empty" THEN EmptyDict
                                 ELSE transport.body.json >>]

\* The attempt of a running _request meets transport.
Request_attempt(transport) ==
  /\ calc.fn = "request" /\ calc.phase = "loop"
  /\ calc.attempt < calc.max_retries
  /\ calc' = request_iteration(calc, transport)
  /\ UNCHANGED <<now, deviceAttr, cachedFingerprint, nextKey, dk, sessionKeys,
                 sessionMetadata, pending, ret>>

\* ------------------------------------------------ ZendFiClient agent sessions
\* The sessions the backend hands out to one client.
MaxSessions == 2

\* Optional[AgentSession] = None, and the AgentSession built from a response.
NoSession == <<>>
AgentSession(session_token, agent_id, is_active) ==
  [session_token |-> session_token, agent_id |-> agent_id, is_active |-> is_active]

\* No request in flight, and the body of a request: agent_id and session_token.
NoRequest == [agent_id |-> "", session_token |-> Absent]
Request(agent_id, session_token) == [agent_id |-> agent_id, session_token |-> session_token]

\* What the last call that ended gave its caller: the session or the payment
\* it returned, or what it raised, and whether it sent anything.
Outcome(op, agent_id, outcome, session, sent) ==
  [op |-> op, agent_id |-> agent_id, outcome |-> outcome, session |-> session, sent |-> sent]

\* A client right after __init__.  cached: _cached_session; session_agent_id:
\* _session_agent_id; env_wallet: whether ZENDFI_USER_WALLET is set; op, agent_id
\* and request: the call that is waiting for the backend and what it posted;
\* created: the sessions the backend has made, by token, each with the agent it
\* was made for and the call that asked; last: the call that ended last.
SessionsIdle ==
  [fn |-> "sessions", phase |-> "idle", cached |-> NoSession, session_agent_id |-> "",
   env_wallet |-> FALSE, op |-> "", agent_id |-> "", request |-> NoRequest,
   created |-> <<>>, last |-> Outcome("init", "", "ok", NoSession, FALSE)]

\* os.environ["ZENDFI_USER_WALLET"] is set or removed.
Session_setenv(wallet) ==
  /\ calc.fn = "sessions" /\ calc.phase = "idle"
  /\ calc.env_wallet # wallet
  /\ calc' = [calc EXCEPT !.env_wallet = wallet]
  /\ UNCHANGED <<now, deviceAttr, cachedFingerprint, nextKey, dk, sessionKeys,
                 sessionMetadata, pending, ret>>

\* create_agent_session(agent_id, user_wallet, ...) up to its request.
Session_create_call(agent_id) ==
  /\ calc.fn = "sessions" /\ calc.phase = "idle"
  /\ Len(calc.created) < MaxSessions
  /\ calc' = [calc EXCEPT !.phase = "create", !.op = "create_agent_session",
                          !.agent_id = agent_id, !.request = Request(agent_id, Absent)]
  /\ UNCHANGED <<now, deviceAttr, cachedFingerprint, nextKey, dk, sessionKeys,
                 sessionMetadata, pending, ret>>

\* The start of ensure_session(agent_id, user_wallet) inside the call op: the
\* cached session when it is active, ValueError without a wallet, else
\* create_agent_session up to its request.  pay goes on to smart_payment with
\* the token of the session it got.
ensure_session(c, op, agent_id, user_wallet) ==
  IF c.cached # NoSession /\ c.cached[1].is_active
  THEN IF op = "pay"
       THEN [c EXCEPT !.phase = "pay", !.op = op, !.agent_id = agent_id,
                      !.request = Request(agent_id, <<c.cached[1].session_token>>)]
       ELSE [c EXCEPT !.last = Outcome(op, agent_id, "ok", c.cached, FALSE)]
  ELSE IF ~(user_wallet \/ c.env_wallet)
  THEN [c EXCEPT !.last = Outcome(op, agent_id, "ValueError", NoSession, FALSE)]
  ELSE [c EXCEPT !.phase = "create", !.op = op, !.agent_id = agent_id,
                 !.request = Request(agent_id, Absent)]

\* ensure_session that asks the backend for a session every time.
Session_ensure_call_always_creates(agent_id, user_wallet) ==
  /\ calc.fn = "sessions" /\ calc.phase = "idle"
  /\ calc' = ensure_session([calc EXCEPT !.cached = NoSession], "ensure_session", agent_id,
                            user_wallet)
  /\ calc'.phase = "create" => Len(calc.created) < MaxSessions
  /\ UNCHANGED <<now, deviceAttr, cachedFingerprint, nextKey, dk, sessionKeys,
                 sessionMetadata, pending, ret>>

\* ensure_session(agent_id, user_wallet): user_wallet tells whether one is passed.
Session_ensure_call(agent_id, user_wallet) ==
  /\ calc.fn = "sessions" /\ calc.phase = "idle"
  /\ calc' = ensure_session(calc, "ensure_session", agent_id, user_wallet)
  /\ calc'.phase = "create" => Len(calc.created) < MaxSessions
  /\ UNCHANGED <<now, deviceAttr, cachedFingerprint, nextKey, dk, sessionKeys,
                 sessionMetadata, pending, ret>>

\* pay(amount_usd, recipient, description, agent_id): ensure_session(agent_id=
\* agent_id) with no wallet passed, then smart_payment.
Session_pay_call(agent_id) ==
  /\ calc.fn = "sessions" /\ calc.phase = "idle"
  /\ calc' = ensure_session(calc, "pay", agent_id, FALSE)
  /\ calc'.phase = "create" => Len(calc.created) < MaxSessions
  /\ UNCHANGED <<now, deviceAttr, cachedFingerprint, nextKey, dk, sessionKeys,
                 sessionMetadata, pending, ret>>

\* smart_payment(agent_id, ..., session_token) up to its request: without a
\* token of the caller's the cached session's is sent, if there is one.
Session_smart_payment_call(agent_id, session_token) ==
  /\ calc.fn = "sessions" /\ calc.phase = "idle"
  /\ calc' = [calc EXCEPT !.phase = "pay", !.op = "smart_payment", !.agent_id = agent_id,
                 !.request = Request(agent_id,
                    IF session_token = Absent /\ calc.cached # NoSession
                    THEN <<calc.cached[1].session_token>> ELSE session_token)]
  /\ UNCHANGED <<now, deviceAttr, cachedFingerprint, nextKey, dk, sessionKeys,
                 sessionMetadata, pending, ret>>

\* POST /api/v1/ai/sessions is answered: on failure the call raises; else the
\* session is built, cached with the agent id asked for, and returned, and pay
\* goes on to post its payment with the token of that session.
Session_create_resume(fail, is_active) ==
  /\ calc.fn = "sessions" /\ calc.phase = "create"
  /\ IF fail
     THEN calc' = [calc EXCEPT !.phase = "idle", !.request = NoRequest,
                      !.last = Outcome(calc.op, calc.agent_id, "ZendFiAPIError", NoSession, TRUE)]
     ELSE LET session == AgentSession(Len(calc.created) + 1, calc.agent_id, is_active)
              made == [calc EXCEPT !.cached = <<session>>, !.session_agent_id = calc.agent_id,
                          !.created = Append(@, [agent_id |-> calc.agent_id, op |-> calc.op])]
          IN calc' = IF calc.op = "pay"
                     THEN [made EXCEPT !.phase = "pay",
                              !.request = Request(calc.agent_id, <<session.session_token>>)]
                     ELSE [made EXCEPT !.phase = "idle", !.request = NoRequest,
                              !.last = Outcome(calc.op, calc.agent_id, "ok", <<session>>, TRUE)]
  /\ UNCHANGED <<now, deviceAttr, cachedFingerprint, nextKey, dk, sessionKeys,
                 sessionMetadata, pending, ret>>

\* POST /api/v1/ai/smart-payment is answered.
Session_pay_resume(fail) ==
  /\ calc.fn = "sessions" /\ calc.phase = "pay"
  /\ calc' = [calc EXCEPT !.phase = "idle", !.request = NoRequest,
                 !.last = Outcome(calc.op, calc.agent_id,
                                  IF fail THEN "ZendFiAPIError" ELSE "ok", NoSession, TRUE)]
  /\ UNCHANGED <<now, deviceAttr, cachedFingerprint, nextKey, dk, sessionKeys,
                 sessionMetadata, pending, ret>>

\* ------------------------------------------------ functions under evaluation
\* The statuses _handle_error_response is reached with.
ErrorStatuses == {400, 401, 402, 403, 404, 422, 429, 500}

\* _handle_error_response(response, endpoint) on one response.
HandleErrorCalls ==
  [fn : {"handle_error_response"}, status : ErrorStatuses, body : ResponseBodies,
   endpoint : Endpoints, out : {<<>>}]

\* await self._handle_error_response(response, endpoint)
Call_handle_error_response ==
  /\ calc.fn = "handle_error_response" /\ calc.out = <<>>
  /\ calc' = [calc EXCEPT !.out =
                 << handle_error_response(calc.status, calc.body, calc.endpoint) >>]
  /\ UNCHANGED <<now, deviceAttr, cachedFingerprint, nextKey, dk, sessionKeys,
                 sessionMetadata, pending, ret>>

\* The calls of the delegation-message functions a caller can make.
DelegationCalls ==
  [fn : {"delegation"}, session_key_id : Ids, max_amount_usd : AmountsCents,
   expires_at : ExpiresAts, signed : {<<>>}, built : {<<>>}]

\* SessionKeysManager.sign_delegation builds its message.
Call_sign_delegation ==
  /\ calc.fn = "delegation" /\ calc.signed = <<>>
  /\ calc' = [calc EXCEPT !.signed =
                 << sign_delegation_message(calc.session_key_id, calc.max_amount_usd,
                                            calc.expires_at) >>]
  /\ UNCHANGED <<now, deviceAttr, cachedFingerprint, nextKey, dk, sessionKeys,
                 sessionMetadata, pending, ret>>

\* AutonomyManager.create_delegation_message builds the text to sign.
Call_create_delegation_message ==
  /\ calc.fn = "delegation" /\ calc.built = <<>>
  /\ calc' = [calc EXCEPT !.built =
                 << AutonomyManager_create_delegation_message(
                      calc.session_key_id, calc.max_amount_usd, calc.expires_at) >>]
  /\ UNCHANGED <<now, deviceAttr, cachedFingerprint, nextKey, dk, sessionKeys,
                 sessionMetadata, pending, ret>>

\* PINs a caller can hand to the crypto layer: also the empty string, 7
\* digits, and 6 Arabic-Indic digits.
PinEmpty == <<>>
PinSeven == <<"1", "2", "3", "4", "5", "6", "7">>
PinArabic == <<"U+0661", "U+0662", "U+0663", "U+0664", "U+0665", "U+0666">>
CryptoPins == {PinA, PinB, PinLetters, PinShort, PinEmpty, PinSeven, PinArabic}

\* encrypt(keypair, pin, fp) followed by decrypt(., pin2, fp2); enc and dec
\* hold what the two calls returned or raised.
CryptoCalls ==
  [fn : {"crypto"}, keypair : KeyVals, pin : CryptoPins, fp : Fps,
   pin2 : CryptoPins, fp2 : Fps, enc : {<<>>}, dec : {<<>>}]

\* SessionKeyCrypto.encrypt(keypair, pin, fp)
Call_encrypt ==
  /\ calc.fn = "crypto" /\ calc.enc = <<>>
  /\ calc' = [calc EXCEPT !.enc = << Encrypt(calc.keypair, calc.pin, calc.fp) >>]
  /\ UNCHANGED <<now, deviceAttr, cachedFingerprint, nextKey, dk, sessionKeys,
                 sessionMetadata, pending, ret>>

\* SessionKeyCrypto.decrypt(encrypted, pin2, fp2) of what encrypt returned.
Call_decrypt ==
  /\ calc.fn = "crypto" /\ calc.enc # <<>> /\ calc.dec = <<>>
  /\ calc.enc[1].ok
  /\ calc' = [calc EXCEPT !.dec = << Decrypt(calc.enc[1].enc[1], calc.pin2, calc.fp2) >>]
  /\ UNCHANGED <<now, deviceAttr, cachedFingerprint, nextKey, dk, sessionKeys,
                 sessionMetadata, pending, ret>>

\* base58_encode(data) followed by base58_decode of the result.
Base58Calls == [fn : {"base58"}, data : ByteStrings, encoded : {<<>>}, decoded : {<<>>}]

\* base58_encode(data)
Call_base58_encode ==
  /\ calc.fn = "base58" /\ calc.encoded = <<>>
  /\ calc' = [calc EXCEPT !.encoded = << base58_encode(calc.data) >>]
  /\ UNCHANGED <<now, deviceAttr, cachedFingerprint, nextKey, dk, sessionKeys,
                 sessionMetadata, pending, ret>>

\* base58_decode(s)
Call_base58_decode ==
  /\ calc.fn = "base58" /\ calc.encoded # <<>> /\ calc.decoded = <<>>
  /\ calc' = [calc EXCEPT !.decoded = << base58_decode(calc.encoded[1]) >>]
  /\ UNCHANGED <<now, deviceAttr, cachedFingerprint, nextKey, dk, sessionKeys,
                 sessionMetadata, pending, ret>>

\* Signatures a caller can pass: base64 text with and without padding, the
\* empty string, padding alone or in the middle, characters outside the
\* alphabet, and text with a line feed at its end.
Signatures ==
  {<<>>, <<"Q", "U">>, <<"+", "/">>, <<"Q", "=">>, <<"Q", "=", "=">>, <<"=">>,
   <<"Q", "=", "U">>, <<"Q", "!">>, <<"-", "_">>, <<"Q", LF>>, <<"Q", "=", LF>>,
   <<LF>>, <<"Q", LF, LF>>}

\* EnableAutonomyRequest values: amounts in cents around 0, durations around
\* both limits.
ValidateCalls ==
  [fn : {"validate_request"}, max_amount_usd : {-100, 0, 1, 10000},
   duration_hours : {0, MinDurationHours, 24, MaxDurationHours, MaxDurationHours + 1},
   delegation_signature : Signatures, out : {<<>>}]

\* AutonomyManager.validate_request(request)
Call_validate_request ==
  /\ calc.fn = "validate_request" /\ calc.out = <<>>
  /\ calc' = [calc EXCEPT !.out = << validate_request(calc) >>]
  /\ UNCHANGED <<now, deviceAttr, cachedFingerprint, nextKey, dk, sessionKeys,
                 sessionMetadata, pending, ret>>

\* Requests handed to enable(): a valid one with and without the expiry
\* override, and one validate_request refuses.
EnableRequests ==
  [max_amount_usd : {0, 10000}, duration_hours : {24},
   delegation_signature : {<<"Q", "U">>}, expires_at : {"", "2026-12-10T00:00:00Z"}]

\* The dict of a delegate as a backend can send it: every key there or not.
DelegateDicts ==
  [delegate_id : {Absent, <<"d1">>}, session_key_id : {Absent, <<"sk2">>},
   max_amount_usd : {Absent, <<20000>>}, spent_usd : {Absent, <<3000>>},
   remaining_usd : {Absent, <<17000>>, <<500>>}, is_active : {Absent, <<FALSE>>},
   created_at : {Absent, <<"2026-11-01T00:00:00Z">>},
   expires_at : {Absent, <<"2026-11-02T00:00:00Z">>}]

\* What POST .../enable-autonomy can come back with: a failure, or a delegate dict.
EnableResponses ==
  [fail : {FALSE}, delegate_id : {Absent, <<"d1">>}, session_key_id : {Absent, <<"sk2">>},
   max_amount_usd : {Absent, <<20000>>}, spent_usd : {Absent, <<3000>>},
   remaining_usd : {Absent, <<17000>>, <<500>>}, is_active : {Absent, <<FALSE>>},
   created_at : {Absent, <<"2026-11-01T00:00:00Z">>},
   expires_at : {Absent, <<"2026-11-02T00:00:00Z">>}]
  \cup
  [fail : {TRUE}, delegate_id : {Absent}, session_key_id : {Absent},
   max_amount_usd : {Absent}, spent_usd : {Absent}, remaining_usd : {Absent},
   is_active : {Absent}, created_at : {Absent}, expires_at : {Absent}]

\* enable(session_key_id, request) against one answer of the backend.
EnableCalls ==
  [fn : {"enable"}, session_key_id : {"sk1"}, request : EnableRequests,
   response : EnableResponses, out : {<<>>}]

\* await AutonomyManager.enable(session_key_id, request)
Call_enable ==
  /\ calc.fn = "enable" /\ calc.out = <<>>
  /\ calc' = [calc EXCEPT !.out =
                 << AutonomyManager_enable(calc.session_key_id, calc.request, calc.response) >>]
  /\ UNCHANGED <<now, deviceAttr, cachedFingerprint, nextKey, dk, sessionKeys,
                 sessionMetadata, pending, ret>>

\* What GET .../autonomy-status can come back with.
StatusResponses ==
  [fail : {FALSE}, autonomous_mode_enabled : {<<TRUE>>},
   delegate : {Absent} \cup {<<d>> : d \in DelegateDicts}]
  \cup
  [fail : BOOLEAN, autonomous_mode_enabled : {Absent, <<FALSE>>}, delegate : {Absent}]

\* get_status(session_key_id) against one answer of the backend.
StatusCalls ==
  [fn : {"get_status"}, session_key_id : {"sk1"}, response : StatusResponses, out : {<<>>}]

\* await AutonomyManager.get_status(session_key_id)
Call_get_status ==
  /\ calc.fn = "get_status" /\ calc.out = <<>>
  /\ calc' = [calc EXCEPT !.out =
                 << AutonomyManager_get_status(calc.session_key_id, calc.response) >>]
  /\ UNCHANGED <<now, deviceAttr, cachedFingerprint, nextKey, dk, sessionKeys,
                 sessionMetadata, pending, ret>>

\* Attestations of one delegate as a backend can send them, in cents.
Attestations ==
  [delegate_id : {"d1"}, spent_usd : {3000, 5000}, limit_usd : {10000},
   remaining_after_usd : {7000, 5000, 6000}]

\* Lists of at most MaxAttestations attestations.
AttestationLists ==
  UNION {[1..n -> Attestations] : n \in 0..MaxAttestations}

\* What GET .../attestations can come back with.
AttestationResponses ==
  [fail : {FALSE}, attestations : AttestationLists]
  \cup [fail : {TRUE}, attestations : {<<>>}]

\* get_attestations(delegate_id) against one answer of the backend.
AttestationCalls ==
  [fn : {"get_attestations"}, delegate_id : {"d1"}, response : AttestationResponses,
   out : {<<>>}]

\* await AutonomyManager.get_attestations(delegate_id)
Call_get_attestations ==
  /\ calc.fn = "get_attestations" /\ calc.out = <<>>
  /\ calc' = [calc EXCEPT !.out =
                 << AutonomyManager_get_attestations(calc.delegate_id, calc.response) >>]
  /\ UNCHANGED <<now, deviceAttr, cachedFingerprint, nextKey, dk, sessionKeys,
                 sessionMetadata, pending, ret>>

\* SmartPaymentResult values a payment can return.
SmartPaymentResults ==
  [payment_id : {"pay1"}, status : {"confirmed", "pending"},
   transaction_signature : {Absent, <<"5VERv8NMvzbJMEkV8xnr">>},
   gasless_used : BOOLEAN, receipt_url : {"", "https://zendfi.example/r/1"}]

NoResult ==
  [payment_id |-> "", status |-> "", transaction_signature |-> Absent,
   gasless_used |-> FALSE, receipt_url |-> ""]

\* How the client's part of one _arun ends: a result, or an exception.
ClientOutcomes ==
  [raises : {"none"}, message : {""}, result : SmartPaymentResults]
  \cup
  [raises : DOMAIN ExceptionBase \ {"Exception"},
   message : {"Network error"}, result : {NoResult}]

\* _arun(recipient, amount_usd, description) against one ending of the client.
ArunCalls ==
  [fn : {"_arun"}, amount_usd : {100, 100000}, client : ClientOutcomes, out : {<<>>}]

\* await ZendFiPaymentTool._arun(recipient, amount_usd, description)
Call_arun ==
  /\ calc.fn = "_arun" /\ calc.out = <<>>
  /\ calc' = [calc EXCEPT !.out = << PaymentTool_arun(calc.amount_usd, calc.client) >>]
  /\ UNCHANGED <<now, deviceAttr, cachedFingerprint, nextKey, dk, sessionKeys,
                 sessionMetadata, pending, ret>>

\* ------------------------------------------------ specifications
\* One DeviceBoundSessionKey in the caller's hands, under a running clock and
\* a device whose fingerprint can change.
NextKey ==
  \/ Tick
  \/ ChangeDevice
  \/ clear_cache
  \/ \E pin \in Pins : Key_create(pin)
  \/ \E pin \in Pins, ttl \in Ttls : Key_unlock_with_pin(pin, ttl)
  \/ Key_lock
  \/ \E optPin \in OptPins : Key_get_keypair(optPin)
  \/ \E optPin \in OptPins : Key_sign(optPin)

SpecKey == Init /\ [][NextKey]_vars

\* The manager and its registry against a backend that may answer anything.
NextManager ==
  \/ \E id \in Ids, pin \in {PinA}, ttl \in {DefaultCacheTtl} : Mgr_unlock(id, pin, ttl)
  \/ \E id \in Ids : Mgr_lock(id)
  \/ \E id \in Ids, optPin \in {NoPin} : Mgr_get_keypair(id, optPin)
  \/ \E id \in Ids, optPin \in {NoPin} : Mgr_sign(id, optPin)
  \/ \E id \in Ids, optPin \in {NoPin} : Mgr_sign_delegation(id, optPin)
  \/ \E pin \in {PinA, PinLetters, PinShort}, agent \in {"agentA"} :
       InFlight(MaxPending) /\ Mgr_create_call(pin, agent, FALSE, "ok")
  \/ \E p \in pending, resp \in CreateResponses : Mgr_create_resume(p, resp)
  \/ \E id \in Ids, pin \in {PinA} : InFlight(MaxPending) /\ Mgr_load_call(id, pin)
  \/ \E p \in pending, resp \in LoadResponses : Mgr_load_resume(p, resp)
  \/ \E id \in Ids : InFlight(MaxPending) /\ Mgr_revoke_call(id)
  \/ \E p \in pending, fail \in BOOLEAN : Mgr_revoke_resume(p, fail)

SpecManager == Init /\ [][NextManager]_vars

\* Creation with and without Lit Protocol, against every behaviour of the Lit
\* service, and the use of the keys it registers.
NextLit ==
  \/ \E pin \in {PinA, PinLetters, PinShort}, agent \in {"agentA"},
        enable_lit_protocol \in BOOLEAN, service \in LitServices :
       InFlight(MaxPending) /\ Mgr_create_call(pin, agent, enable_lit_protocol, service)
  \/ \E p \in pending, resp \in CreateResponses : Mgr_create_resume(p, resp)
  \/ \E id \in Ids : Mgr_lock(id)
  \/ \E id \in Ids, optPin \in {NoPin, <<PinA>>} : Mgr_sign(id, optPin)

SpecLit == Init /\ [][NextLit]_vars

\* Callers that overlap: one more coroutine may wait for the backend than
\* under SpecManager, so that a load and a revoke can be out together.
NextRace ==
  \/ \E id \in Ids : Mgr_unlock(id, PinA, DefaultCacheTtl)
  \/ \E id \in Ids : Mgr_lock(id)
  \/ \E id \in Ids, optPin \in {NoPin, <<PinA>>} : Mgr_sign(id, optPin)
  \/ InFlight(MaxPending + 1) /\ Mgr_create_call(PinA, "agentA", FALSE, "ok")
  \/ \E p \in pending, resp \in CreateResponses : Mgr_create_resume(p, resp)
  \/ \E id \in Ids : InFlight(MaxPending + 1) /\ Mgr_load_call(id, PinA)
  \/ \E p \in pending, resp \in LoadResponses : Mgr_load_resume(p, resp)
  \/ \E id \in Ids : InFlight(MaxPending + 1) /\ Mgr_revoke_call(id)
  \/ \E p \in pending, fail \in BOOLEAN : Mgr_revoke_resume(p, fail)

SpecRace == Init /\ [][NextRace]_vars

\* Payments through the backend next to keys that are created, unlocked and
\* locked locally.
NextPay ==
  \/ Tick
  \/ \E id \in Ids : Mgr_unlock(id, PinA, DefaultCacheTtl)
  \/ \E id \in Ids : Mgr_lock(id)
  \/ InFlight(MaxPending) /\ Mgr_create_call(PinA, "agentA", FALSE, "ok")
  \/ \E p \in pending, resp \in CreateResponses : Mgr_create_resume(p, resp)
  \/ \E id \in Ids : InFlight(MaxPending) /\ Mgr_make_payment_call(id)
  \/ \E p \in pending, resp \in PaymentResponses : Mgr_make_payment_resume(p, resp)

SpecPay == Init /\ [][NextPay]_vars

\* The fingerprint generator alone: calls with and without the cache, the
\* cache cleared, the device changing under it.
NextFingerprint ==
  \/ \E use_cache \in BOOLEAN, p \in Probes : Fp_generate(use_cache, p)
  \/ clear_cache
  \/ ChangeDevice
  \/ Tick

SpecFingerprint == Init /\ [][NextFingerprint]_vars

\* One client making payment calls one after the other, each through up to
\* max_retries attempts.
InitPayments == Started /\ calc = PaymentsIdle

NextPayments ==
  \/ \E via \in {"smart_payment", "pay", "make_payment"}, k \in CallerKeys,
        u \in UuidHexes, wallet \in BOOLEAN : Pay_call(via, k, u, wallet)
  \/ \E transport \in {"ok", "TimeoutException", "ConnectError", "status_500"} :
        Pay_attempt(transport)

SpecPayments == InitPayments /\ [][NextPayments]_vars

\* One client whose _request is called again and again, against every
\* behaviour of the transport.
InitRequest == Started /\ calc = RequestIdle

NextRequest ==
  \/ \E max_retries \in 0..MaxRetriesArg, method \in Methods, endpoint \in Endpoints :
        Request_call(max_retries, method, endpoint)
  \/ \E transport \in Transports : Request_attempt(transport)

SpecRequest == InitRequest /\ [][NextRequest]_vars

\* Every attempt ends: the HTTP client gives up after its timeout, and a sleep
\* is over after wait_time.
FairRequest == SpecRequest /\ WF_vars(\E transport \in Transports : Request_attempt(transport))

\* One client that creates and ensures agent sessions and pays, for two
\* agents, with and without a wallet at hand.
InitSessions == Started /\ calc = SessionsIdle

\* The token of a session that was not made for this client.
ForeignToken == 0

NextSessions ==
  \/ \E wallet \in BOOLEAN : Session_setenv(wallet)
  \/ \E agent_id \in Agents : Session_create_call(agent_id)
  \/ \E agent_id \in Agents, user_wallet \in BOOLEAN : Session_ensure_call(agent_id, user_wallet)
  \/ \E agent_id \in Agents : Session_pay_call(agent_id)
  \/ \E agent_id \in Agents, session_token \in {Absent, <<ForeignToken>>} :
        Session_smart_payment_call(agent_id, session_token)
  \/ \E fail \in BOOLEAN, is_active \in BOOLEAN : Session_create_resume(fail, is_active)
  \/ \E fail \in BOOLEAN : Session_pay_resume(fail)

SpecSessions == InitSessions /\ [][NextSessions]_vars

\* The stateless functions, each applied to inputs drawn at the start.
PureCalls == DelegationCalls \cup CryptoCalls \cup Base58Calls \cup ValidateCalls
  \cup EnableCalls \cup StatusCalls \cup AttestationCalls
  \cup ArunCalls \cup HandleErrorCalls

InitPure == Started /\ calc \in PureCalls

NextPure ==
  \/ Call_sign_delegation
  \/ Call_create_delegation_message
  \/ Call_encrypt
  \/ Call_decrypt
  \/ Call_base58_encode
  \/ Call_base58_decode
  \/ Call_validate_request
  \/ Call_enable
  \/ Call_get_status
  \/ Call_get_attestations
  \/ Call_arun
  \/ Call_handle_error_response

SpecPure == InitPure /\ [][NextPure]_vars

\* ================================================ claims: DeviceBoundSessionKey
\* The instants at which a cache set within the model can still be read.
Horizon == 0..(MaxTime + MaxTtl)

\* PIN-less reads of the directly held key.
PinlessRead == ret'.op \in {"dk.get_keypair", "dk.sign"} /\ ~ret'.pin

\* C1: at most one plaintext keypair is held per key: the raw keypair of create()
\* and the unlock cache are never both populated.
C1_AtMostOnePlaintext ==
  ~(dk.keypair # NoKeypair /\ dk.cached_keypair # NoKeypair)

\* C2: lock() from any state clears raw keypair, cache and expiry and keeps the
\* encrypted blob and the bound fingerprint; a PIN-less get_keypair() then fails
\* with NotUnlockedError at every later instant; a second lock() changes nothing.
C2_LockLeavesLocked ==
  [][ret'.op = "dk.lock" =>
       /\ dk'.keypair = NoKeypair
       /\ dk'.cached_keypair = NoKeypair
       /\ dk'.cache_expires_at = NoExpiry
       /\ dk'.encrypted = dk.encrypted
       /\ dk'.device_fingerprint = dk.device_fingerprint
       /\ \A t \in Horizon : \A fp \in Fps :
            LET g == get_keypair(dk', NoPin, t, fp) IN
            g.outcome = "NotUnlockedError" /\ g.key = dk'
       /\ lock(dk') = dk']_vars

C2_Witness ==
  /\ ret.op = "dk.lock"
  /\ dk.encrypted # NoEncrypted
  /\ dk.keypair = NoKeypair /\ dk.cached_keypair = NoKeypair
  /\ dk.cache_expires_at = NoExpiry

\* C3: a PIN-less get_keypair()/sign() succeeds exactly when the key holds its
\* raw keypair or a cache whose expiry is still ahead (now < expiry); otherwise
\* it fails with NotUnlockedError and changes nothing.  A key without raw
\* keypair whose cache is absent or expired becomes readable again only through
\* a successful PIN-carrying call (unlock_with_pin, or get_keypair/sign with the
\* PIN) or by the caller's replacing it with a newly created key.
C3_PinlessReadIffLive ==
  [][/\ PinlessRead =>
          /\ ret'.outcome \in {"ok", "NotUnlockedError"}
          /\ (ret'.outcome = "ok") <=>
               \/ dk.keypair # NoKeypair
               \/ /\ dk.cached_keypair # NoKeypair
                  /\ dk.cache_expires_at # NoExpiry
                  /\ now < dk.cache_expires_at
          /\ ret'.outcome # "ok" =>
               /\ dk' = dk
               /\ UNCHANGED <<now, deviceAttr, cachedFingerprint, nextKey>>
     /\ ( /\ dk.keypair = NoKeypair
          /\ ~(dk.cached_keypair # NoKeypair /\ dk.cache_expires_at # NoExpiry
               /\ now < dk.cache_expires_at)
          /\ \/ dk'.keypair # NoKeypair
             \/ /\ dk'.cached_keypair # NoKeypair
                /\ dk'.cache_expires_at # NoExpiry
                /\ now' < dk'.cache_expires_at )
        => /\ ret'.outcome = "ok"
           /\ ret'.pin
           /\ ret'.op \in {"dk.unlock_with_pin", "dk.get_keypair", "dk.sign", "dk.create"}
    ]_vars

\* A PIN-less read refused because the cache has run out.
C3_Witness ==
  /\ ret.op = "dk.get_keypair" /\ ~ret.pin
  /\ ret.outcome = "NotUnlockedError"
  /\ dk.keypair = NoKeypair
  /\ dk.cached_keypair # NoKeypair
  /\ dk.cache_expires_at # NoExpiry /\ dk.cache_expires_at < now

\* C4: on a locked key (no raw keypair), right after a successful
\* unlock_with_pin(pin, 0) a PIN-less get_keypair() fails: an expiry equal to
\* the instant of the read is already expired.
C4_ZeroTtlExpiredAtOnce ==
  [][( /\ ret.op = "dk.unlock_with_pin" /\ ret.outcome = "ok" /\ ret.ttl = 0
       /\ dk.keypair = NoKeypair
       /\ ret'.op = "dk.get_keypair" /\ ~ret'.pin )
     => ret'.outcome = "NotUnlockedError"]_vars

\* The refused read, at the very instant the cache of the locked key expires.
C4_Witness ==
  /\ ret.op = "dk.get_keypair" /\ ~ret.pin
  /\ ret.outcome = "NotUnlockedError"
  /\ dk.keypair = NoKeypair
  /\ dk.cached_keypair # NoKeypair
  /\ dk.cache_expires_at = now

\* C5: create() leaves the raw keypair in the instance; while it is there a
\* PIN-less sign() succeeds and decrypts nothing (the cache and the fingerprint
\* cache are untouched), at any time; and only lock() removes it.
C5_FreshSignsUntilLock ==
  [][/\ (ret'.op = "dk.create" /\ ret'.outcome = "ok") =>
          /\ dk'.keypair # NoKeypair
          /\ dk'.cached_keypair = NoKeypair
     /\ (dk.keypair # NoKeypair /\ ret'.op = "dk.sign" /\ ~ret'.pin) =>
          /\ ret'.outcome = "ok"
          /\ dk' = dk
          /\ cachedFingerprint' = cachedFingerprint
     /\ (dk.keypair # NoKeypair /\ dk'.keypair = NoKeypair) => ret'.op = "dk.lock"
    ]_vars

\* A fresh key, never unlocked, signing at the last instant of the clock.
C5_Witness ==
  /\ ret.op = "dk.sign" /\ ~ret.pin /\ ret.outcome = "ok"
  /\ dk.keypair # NoKeypair
  /\ dk.cached_keypair = NoKeypair
  /\ now = MaxTime

\* C6: a successful unlock_with_pin(pin, ttl) caches the decrypted keypair with
\* expiry exactly now + ttl, whatever the expiry was before; a PIN-less
\* get_keypair() on the key it leaves succeeds at every t with
\* now <= t < now + ttl; and a live cache is changed only by lock(), by another
\* unlock_with_pin() or by the caller's replacing the key.
C6_UnlockSetsWindow ==
  [][/\ (ret'.op = "dk.unlock_with_pin" /\ ret'.outcome = "ok") =>
          /\ dk'.cached_keypair = dk.encrypted.encrypted_data.secret
          /\ dk'.cached_keypair # NoKeypair
          /\ dk'.cache_expires_at = now + ret'.ttl
          /\ dk'.keypair = dk.keypair /\ dk'.encrypted = dk.encrypted
          /\ \A t \in Horizon : (now <= t /\ t < now + ret'.ttl) =>
               \A fp \in Fps : get_keypair(dk', NoPin, t, fp).outcome = "ok"
     /\ ( /\ dk.cached_keypair # NoKeypair
          /\ dk.cache_expires_at # NoExpiry /\ now < dk.cache_expires_at
          /\ ret'.op \notin {"dk.lock", "dk.unlock_with_pin", "dk.create"} )
        => /\ dk'.cached_keypair = dk.cached_keypair
           /\ dk'.cache_expires_at = dk.cache_expires_at
    ]_vars

\* A re-unlock that shortened the window of a locked key's live cache is not
\* visible in one state; the witness is an unlock from LOCKED with a real window.
C6_Witness ==
  /\ ret.op = "dk.unlock_with_pin" /\ ret.outcome = "ok" /\ ret.ttl > 0
  /\ dk.keypair = NoKeypair
  /\ dk.cached_keypair # NoKeypair
  /\ dk.cache_expires_at = now + ret.ttl

\* ================================================ claims: SessionKeysManager
\* C7: when the backend's answer to create() names a session_wallet other than
\* the locally generated public key, create() fails with the conflict error
\* and the key registry and the metadata registry are as they were.
C7_ConflictStoresNothing ==
  [][/\ (ret'.op = "create" /\ ret'.outcome # "awaiting") =>
          \A p \in pending : \A resp \in CreateResponses :
            ( /\ Mgr_create_resume(p, resp)
              /\ ~resp.fail
              /\ resp.session_wallet # NoKeypair
              /\ resp.session_wallet # p.key.keypair )
            => /\ ret'.outcome = "ConflictError"
               /\ UNCHANGED <<sessionKeys, sessionMetadata>>
     /\ (ret'.op = "create" /\ ret'.outcome = "ConflictError")
          => UNCHANGED <<sessionKeys, sessionMetadata>>
    ]_vars

\* The conflict reported for an id that another key is already registered under.
C7_Witness ==
  /\ ret.op = "create" /\ ret.outcome = "ConflictError"
  /\ ret.id \in DOMAIN sessionKeys
  /\ ret.id \in DOMAIN sessionMetadata
  /\ pending = {}

\* C8: load(id, pin) changes the registry only when the backend reported no
\* fingerprint mismatch and the fetched blob opened under pin, and then only
\* the entry of id; on device_fingerprint_valid = false it fails with
\* DeviceMismatchError whatever the PIN and the blob are; on that failure, on a
\* wrong PIN and on every other failure the registry is as it was.
C8_LoadRegistersVerifiedOnly ==
  [][/\ (ret'.op = "load" /\ ret'.outcome # "awaiting") =>
          \A p \in pending : \A resp \in LoadResponses :
            (p.id = ret'.id /\ Mgr_load_resume(p, resp)) =>
              /\ (~resp.fail /\ ~resp.device_fingerprint_valid)
                   => ret'.outcome = "DeviceMismatchError" /\ sessionKeys' = sessionKeys
              /\ (~resp.fail /\ resp.device_fingerprint_valid
                  /\ resp.blob.key # DeriveKey(p.pin, p.fp))
                   => ret'.outcome = "DecryptionError" /\ sessionKeys' = sessionKeys
              /\ sessionKeys' # sessionKeys
                   => /\ ~resp.fail /\ resp.device_fingerprint_valid
                      /\ resp.blob.key = DeriveKey(p.pin, p.fp)
                      /\ ret'.outcome = "ok"
                      /\ DOMAIN sessionKeys' = DOMAIN sessionKeys \cup {p.id}
                      /\ \A x \in DOMAIN sessionKeys \ {p.id} : sessionKeys'[x] = sessionKeys[x]
     /\ (ret'.op = "load" /\ ret'.outcome # "ok") => sessionKeys' = sessionKeys
    ]_vars

\* A load refused for the device while a fresh key is registered under its id.
C8_Witness ==
  /\ ret.op = "load" /\ ret.outcome = "DeviceMismatchError"
  /\ ret.id \in DOMAIN sessionKeys
  /\ sessionKeys[ret.id].keypair # NoKeypair

\* C9 as claimed: lock(id) fails with NotLoadedError if id is not in the registry.
C9_LockNotLoadedFails ==
  [][(ret'.op = "lock" /\ ret'.id \notin DOMAIN sessionKeys)
       => ret'.outcome = "NotLoadedError"]_vars

\* C9 as amended: lock(id) on an id that is not in the registry returns
\* normally and changes nothing.
C9_LockNotLoadedNoOp ==
  [][(ret'.op = "lock" /\ ret'.id \notin DOMAIN sessionKeys)
       => /\ ret'.outcome = "ok"
          /\ UNCHANGED <<sessionKeys, sessionMetadata, pending, cachedFingerprint>>]_vars

\* lock() of an id that is not loaded, next to a key that is.
C9_Witness ==
  /\ ret.op = "lock" /\ ret.outcome = "ok"
  /\ ret.id \notin DOMAIN sessionKeys
  /\ DOMAIN sessionKeys # {}

\* C10: unlock, sign, sign_delegation and get_keypair on an id that is not in
\* the registry fail with NotLoadedError, send no backend request and change
\* neither the registry nor any key.
C10_NotLoadedFails ==
  [][( /\ ret'.op \in {"unlock", "sign", "sign_delegation", "get_keypair"}
       /\ ret'.id \notin DOMAIN sessionKeys )
       => /\ ret'.outcome = "NotLoadedError"
          /\ UNCHANGED <<sessionKeys, sessionMetadata, pending, cachedFingerprint,
                         nextKey, dk>>]_vars

\* sign_delegation refused for an id that is not loaded, next to a key that is.
C10_Witness ==
  /\ ret.op = "sign_delegation" /\ ret.outcome = "NotLoadedError"
  /\ ret.id \notin DOMAIN sessionKeys
  /\ DOMAIN sessionKeys # {}

\* C11: revoke(id) leaves both registries alone while its backend request is
\* out; when the request succeeds it removes id from the key registry and the
\* metadata registry (and nothing else), after which unlock and sign for id
\* fail with NotLoadedError; when the request fails both registries, and with
\* them every key's lock state, are unchanged.  No other step removes a key.
C11_RevokeRemovesAfterBackend ==
  [][/\ (ret'.op = "revoke" /\ ret'.outcome = "awaiting")
          => UNCHANGED <<sessionKeys, sessionMetadata>>
     /\ (ret'.op = "revoke" /\ ret'.outcome = "ok")
          => /\ ret'.id \notin DOMAIN sessionKeys'
             /\ ret'.id \notin DOMAIN sessionMetadata'
             /\ \A x \in DOMAIN sessionKeys \ {ret'.id} :
                  x \in DOMAIN sessionKeys' /\ sessionKeys'[x] = sessionKeys[x]
             /\ \A x \in DOMAIN sessionMetadata \ {ret'.id} :
                  x \in DOMAIN sessionMetadata' /\ sessionMetadata'[x] = sessionMetadata[x]
     /\ (ret.op = "revoke" /\ ret.outcome = "ok"
         /\ ret'.op \in {"unlock", "sign"} /\ ret'.id = ret.id)
          => ret'.outcome = "NotLoadedError"
     /\ (ret'.op = "revoke" /\ ret'.outcome \notin {"awaiting", "ok"})
          => UNCHANGED <<sessionKeys, sessionMetadata>>
     /\ (\E x \in DOMAIN sessionKeys : x \notin DOMAIN sessionKeys')
          => ret'.op = "revoke" /\ ret'.outcome = "ok"
    ]_vars

\* A completed revoke of one id while the other id's key stays registered.
C11_Witness ==
  /\ ret.op = "revoke" /\ ret.outcome = "ok"
  /\ ret.id \notin DOMAIN sessionKeys
  /\ ret.id \notin DOMAIN sessionMetadata
  /\ DOMAIN sessionKeys # {}

\* C15: a create() whose Lit encryption is switched off, or whose Lit service
\* is unreachable, not connected, failing its health check, timing out or
\* answering with an error, does what a create() without Lit does: it suspends
\* on the backend request with the same encrypted blob and key and without
\* lit_encrypted_keypair / lit_data_hash; and the answer registers the key it
\* built whether or not the request carried a Lit ciphertext.
C15_CreateWithoutLit ==
  [][/\ (ret'.op = "create" /\ ret'.id = NoId) =>
          \A pin \in {PinA, PinLetters, PinShort}, enable \in BOOLEAN, service \in LitServices :
            ( /\ Mgr_create_call(pin, "agentA", enable, service)
              /\ (~enable \/ service # "ok") )
            => /\ \A p \in pending' \ pending : p.lit = NoLit
               /\ PinFormatOk(pin) =>
                    /\ ret'.outcome = "awaiting"
                    /\ \E p \in pending' \ pending :
                         [p EXCEPT !.enable_lit_protocol = FALSE] =
                           Suspended("create", NoId, pin, generate,
                                     DeviceBoundSessionKey_create(pin, generate, nextKey).key,
                                     "agentA", FALSE, NoLit)
               /\ UNCHANGED <<sessionKeys, sessionMetadata>>
     /\ (ret'.op = "create" /\ ret'.outcome # "awaiting") =>
          \A p \in pending : \A resp \in CreateResponses :
            ( /\ Mgr_create_resume(p, resp)
              /\ ~resp.fail
              /\ resp.session_wallet \in {NoKeypair, p.key.keypair} )
            => /\ ret'.outcome = "ok"
               /\ sessionKeys'[resp.session_key_id] = p.key
               /\ resp.session_key_id \in DOMAIN sessionMetadata'
    ]_vars

\* A create() that asked for Lit, got nothing, and is waiting for the backend
\* with its blob.
C15_Witness ==
  /\ ret.op = "create" /\ ret.outcome = "awaiting"
  /\ \E p \in pending :
       /\ p.op = "create"
       /\ p.enable_lit_protocol
       /\ p.lit = NoLit
       /\ p.key.encrypted # NoEncrypted

\* C16: create() rejects a PIN shorter than 4 characters before it generates
\* anything (no keypair, no fingerprint); a PIN of 4 or more characters that
\* is not 6 digits is rejected by the format check of encrypt(); either way
\* no backend request is made and the registries are as they were.
C16_CreateRejectsBadPin ==
  [][(ret'.op = "create" /\ ret'.id = NoId) =>
       \A pin \in {PinA, PinLetters, PinShort} :
         Mgr_create_call(pin, "agentA", FALSE, "ok") =>
           /\ Len(pin) < 4 =>
                /\ ret'.outcome = "ValidationError"
                /\ UNCHANGED <<nextKey, cachedFingerprint, pending, sessionKeys,
                               sessionMetadata>>
           /\ (Len(pin) >= 4 /\ ~PinFormatOk(pin)) =>
                /\ ret'.outcome = "ValidationError"
                /\ Encrypt(nextKey, pin, generate).err = "ValidationError"
                /\ UNCHANGED <<pending, sessionKeys, sessionMetadata>>
    ]_vars

\* The 4-character PIN with letters, refused after a key is registered.
C16_Witness ==
  /\ ret.op = "create" /\ ret.outcome = "ValidationError"
  /\ nextKey > 2
  /\ pending = {}
  /\ DOMAIN sessionKeys # {}

\* C13: unlock, lock, sign, load and revoke on one id, at whatever point of
\* whatever interleaving, leave every other registered id registered, with its
\* raw keypair, cached plaintext, cache expiry and encrypted blob as they were.
C13_OtherIdsUntouched ==
  [][\A B \in DOMAIN sessionKeys :
       ( /\ ret'.op \in {"unlock", "lock", "sign", "load", "revoke"}
         /\ ret'.id # B )
       => /\ B \in DOMAIN sessionKeys'
          /\ sessionKeys'[B] = sessionKeys[B]]_vars

\* An unlock of one id next to another id's key that is still FRESH.
C13_Witness ==
  /\ ret.op = "unlock" /\ ret.outcome = "ok"
  /\ \E B \in DOMAIN sessionKeys \ {ret.id} :
       /\ sessionKeys[B].keypair # NoKeypair
       /\ sessionKeys[B].cached_keypair = NoKeypair
  /\ sessionKeys[ret.id].cached_keypair # NoKeypair
  /\ sessionKeys[ret.id].keypair = NoKeypair

\* C14: once revoke(id) has completed, id is not in the registry, also when a
\* load(id) that was waiting for the backend while the revoke completed
\* finishes next.
C14_RevokedStaysOut ==
  [][( /\ ret.op = "revoke" /\ ret.outcome = "ok"
       /\ ret'.op = "load" /\ ret'.outcome # "awaiting"
       /\ ret'.id = ret.id )
     => ret.id \notin DOMAIN sessionKeys']_vars

\* ================================================ claims: stateless functions
\* C12: for every session_key_id, max_amount_usd and expires_at, the message
\* sign_delegation signs is character for character the string
\* AutonomyManager.create_delegation_message returns for the same parameters.
C12_SignedMessageIsBuiltMessage ==
  (calc.fn = "delegation" /\ calc.signed # <<>> /\ calc.built # <<>>)
    => calc.signed[1] = calc.built[1]

\* A PIN of exactly 6 ASCII digits.
SixAsciiDigits(pin) == Len(pin) = 6 /\ \A i \in 1..Len(pin) : pin[i] \in Digits

\* C17: encrypt and decrypt accept a PIN if and only if it is exactly 6 ASCII
\* digits; every other PIN fails with ValidationError before any key derivation.
C17_PinAcceptedIffSixAsciiDigits ==
  /\ (calc.fn = "crypto" /\ calc.enc # <<>>) =>
        IF SixAsciiDigits(calc.pin) THEN calc.enc[1].ok
        ELSE /\ ~calc.enc[1].ok
             /\ calc.enc[1].err = "ValidationError"
             /\ calc.enc[1].steps = <<>>
  /\ (calc.fn = "crypto" /\ calc.dec # <<>>) =>
        IF SixAsciiDigits(calc.pin2) THEN calc.dec[1].err # "ValidationError"
        ELSE /\ ~calc.dec[1].ok
             /\ calc.dec[1].err = "ValidationError"
             /\ calc.dec[1].steps = <<>>

C20_Base58RoundTrip ==
  (calc.fn = "base58" /\ calc.decoded # <<>>) => calc.decoded[1] = calc.data

\* A leading zero byte in front of a byte that needs two base58 digits.
C20_Witness ==
  /\ calc.fn = "base58" /\ calc.decoded # <<>>
  /\ calc.data = <<0, 255>>
  /\ calc.encoded[1] = <<"1", "5", "Q">>
  /\ calc.decoded[1] = <<0, 255>>

\* C21: while the class holds a cached fingerprint, generate(use_cache=True)
\* returns that value without running the probes; only clear_cache() takes a
\* cached value away, and generate(use_cache=False) runs the probes and leaves
\* the cached value as it was; with no cached value generate runs the probes.
C21_CachedFingerprintStable ==
  [][/\ (ret'.op = "generate" /\ calc'.use_cache /\ cachedFingerprint # NoFp)
          => /\ ret'.outcome = "ok"
             /\ calc'.result = cachedFingerprint
             /\ ~calc'.computed
     /\ (cachedFingerprint # NoFp /\ cachedFingerprint' # cachedFingerprint)
          => ret'.op = "clear_cache" /\ cachedFingerprint' = NoFp
     /\ (ret'.op = "generate" /\ ~calc'.use_cache)
          => /\ cachedFingerprint' = cachedFingerprint
             /\ calc'.computed
             /\ ret'.outcome = "ok" => calc'.result = deviceAttr
     /\ (ret'.op = "generate" /\ cachedFingerprint = NoFp) => calc'.computed
    ]_vars

\* The cached fingerprint served although the device now hashes to another value.
C21_Witness ==
  /\ ret.op = "generate" /\ calc.fn = "generate" /\ calc.use_cache /\ ~calc.computed
  /\ calc.result = cachedFingerprint
  /\ cachedFingerprint # deviceAttr

\* C22 as claimed: generate() returns a fingerprint whatever the probes meet.
C22_GenerateNeverRaises ==
  ret.op = "generate" => ret.outcome = "ok"

\* sig is made only of base64 characters, at least one, followed by optional "=".
OnlyBase64AndPadding(sig) ==
  \E k \in 1..Len(sig) :
    /\ \A i \in 1..k : sig[i] \in Base64Chars
    /\ \A i \in (k + 1)..Len(sig) : sig[i] = "="

\* C23 as claimed: validate_request accepts a request exactly when
\* max_amount_usd > 0, 1 <= duration_hours <= 168, and delegation_signature is
\* non-empty and made only of base64 characters with optional trailing "=".
C23_ValidateAcceptsExactly ==
  (calc.fn = "validate_request" /\ calc.out # <<>>) =>
    (calc.out[1] = "ok" <=>
       /\ calc.max_amount_usd > 0
       /\ 1 <= calc.duration_hours /\ calc.duration_hours <= 168
       /\ calc.delegation_signature # <<>>
       /\ OnlyBase64AndPadding(calc.delegation_signature))

\* C24 as claimed: for a request that validates and every answer of the
\* backend that is not a failure, enable() returns an AutonomousDelegate in
\* which each key the backend left out has the request's value: session_key_id
\* of the call, max_amount_usd and remaining_usd of the request's amount,
\* expires_at of the request's expiry override.
C24_EnableFillsFromRequest ==
  (/\ calc.fn = "enable" /\ calc.out # <<>>
   /\ validate_request(calc.request) = "ok" /\ ~calc.response.fail) =>
    /\ calc.out[1].outcome = "ok"
    /\ calc.out[1].delegate # <<>>
    /\ LET d == calc.out[1].delegate[1]
           r == calc.response IN
       /\ r.session_key_id = Absent => d.session_key_id = calc.session_key_id
       /\ r.max_amount_usd = Absent => d.max_amount_usd = calc.request.max_amount_usd
       /\ r.remaining_usd = Absent => d.remaining_usd = calc.request.max_amount_usd
       /\ r.expires_at = Absent => d.expires_at = calc.request.expires_at

\* C25 as claimed: every AutonomousDelegate that enable() or get_status()
\* returns has remaining_usd = max_amount_usd - spent_usd and remaining_usd >= 0.
C25_RemainingIsMaxMinusSpent ==
  (calc.fn \in {"enable", "get_status"} /\ calc.out # <<>>) =>
    \A i \in DOMAIN calc.out[1].delegate :
      LET d == calc.out[1].delegate[i] IN
      /\ d.remaining_usd = d.max_amount_usd - d.spent_usd
      /\ d.remaining_usd >= 0

\* C26 as claimed: a trail that get_attestations returns has spent_usd
\* non-decreasing along the sequence and remaining_after_usd = limit_usd -
\* spent_usd in every entry.
C26_ReturnedTrailIsConsistent ==
  (calc.fn = "get_attestations" /\ calc.out # <<>> /\ calc.out[1].outcome = "ok") =>
    LET t == calc.out[1].attestations IN
    /\ \A i \in 1..(Len(t) - 1) : t[i].spent_usd <= t[i + 1].spent_usd
    /\ \A i \in 1..Len(t) : t[i].remaining_after_usd = t[i].limit_usd - t[i].spent_usd

\* C27: make_payment(id, ...) only sends the request and maps the answer: it
\* never fails for a missing or locked key, a successful answer is returned as
\* a PaymentResult carrying the backend's signature, and the registry, the
\* metadata and every key (lock state, cached keypair, cache expiry) are as
\* before, at the call and at the answer.
C27_MakePaymentIsPassThrough ==
  [][ret'.op = "make_payment" =>
       /\ ret'.outcome \in {"awaiting", "ok", "BackendError"}
       /\ ret'.outcome = "awaiting"
            => \E p \in pending' : p.op = "make_payment" /\ p.id = ret'.id
       /\ \A p \in pending : \A resp \in PaymentResponses :
            (Mgr_make_payment_resume(p, resp) /\ ~resp.fail) =>
              /\ ret'.outcome = "ok"
              /\ calc'.result.signature = Get(resp.signature, "")
       /\ UNCHANGED <<sessionKeys, sessionMetadata, dk, cachedFingerprint, nextKey>>
    ]_vars

\* A payment that went through for an id the registry does not hold, next to
\* a registered key whose cache is live.
C27_Witness ==
  /\ ret.op = "make_payment" /\ ret.outcome = "ok"
  /\ ret.id \notin DOMAIN sessionKeys
  /\ \E x \in DOMAIN sessionKeys : is_cached(sessionKeys[x], now)

\* C28: whatever exception the client ends in (an API error, insufficient
\* balance, an expired or missing session key, any other Exception), _arun
\* raises nothing and returns a text that starts by naming the failure; a
\* payment that went through returns its confirmation.
C28_ArunReturnsErrorText ==
  (calc.fn = "_arun" /\ calc.out # <<>>) =>
    LET c == calc.client
        o == calc.out[1] IN
    /\ IsInstance(c.raises, "Exception") =>
         /\ o.raised = "none"
         /\ o.text # <<>>
         /\ o.text[1] \in {"Payment Failed: Insufficient Balance",
                            "Payment Failed: Session Key Expired",
                            "Payment Failed: No Session Key",
                            "Payment Failed: " \o c.message,
                            "Unexpected Error: " \o c.message}
         /\ c.raises = "InsufficientBalanceError"
              => o.text[1] = "Payment Failed: Insufficient Balance"
         /\ c.raises = "SessionKeyExpiredError"
              => o.text[1] = "Payment Failed: Session Key Expired"
         /\ c.raises = "SessionKeyNotFoundError"
              => o.text[1] = "Payment Failed: No Session Key"
    /\ c.raises = "none" => o.raised = "none" /\ o.text[1] = "Payment Successful!"

\* An exception that is none of the client's own, returned as text.
C28_Witness ==
  /\ calc.fn = "_arun" /\ calc.out # <<>>
  /\ calc.client.raises = "KeyError"
  /\ calc.out[1].raised = "none"
  /\ calc.out[1].text = <<"Unexpected Error: Network error">>

\* The calls of a client that reached _request: the finished ones and the
\* one under way.
RequestedCalls ==
  IF calc.fn # "payments" THEN {}
  ELSE {c \in {calc.done[i] : i \in DOMAIN calc.done} : c.sent # <<>>}
       \cup (IF calc.phase = "request"
             THEN {FinishedCall(calc, calc.sent, "awaiting")} ELSE {})

\* C29: every attempt of every payment call carries an idempotency key, the
\* same one on each attempt of the call: the caller's key when one was given,
\* else "pay_" followed by 16 hex characters; and calls that were given no key
\* do not share a key.
C29_IdempotencyKeyOnEveryAttempt ==
  /\ \A c \in RequestedCalls :
       /\ \A i \in DOMAIN c.sent : c.sent[i] = <<c.key>>
       /\ c.key # <<>>
       /\ IF c.caller_key # Absent /\ c.caller_key[1] # <<>>
          THEN c.key = c.caller_key[1]
          ELSE /\ Len(c.key) = 20
               /\ SubSeq(c.key, 1, 4) = <<"p", "a", "y", "_">>
               /\ \A i \in 5..20 : c.key[i] \in HexChars
  /\ calc.fn = "payments" =>
       \A i, j \in DOMAIN calc.done :
         (/\ i # j
          /\ calc.done[i].sent # <<>> /\ calc.done[j].sent # <<>>
          /\ calc.done[i].caller_key \in {Absent, << <<>> >>}
          /\ calc.done[j].caller_key \in {Absent, << <<>> >>})
         => calc.done[i].key # calc.done[j].key

\* Two calls without a caller key behind the client, the second of them
\* through pay and sent max_retries times.
C29_Witness ==
  /\ calc.fn = "payments" /\ Len(calc.done) = 2
  /\ calc.done[1].caller_key = Absent /\ calc.done[1].sent # <<>>
  /\ calc.done[2].caller_key = Absent /\ calc.done[2].via = "pay"
  /\ Len(calc.done[2].sent) = MaxRetries

\* C30: unlock_with_pin, get_keypair, sign and lock, ending well or in a
\* failure, leave the key's EncryptedSessionKey (ciphertext, public key, bound
\* fingerprint) and the fingerprint the key holds exactly as they were.
C30_EncryptedFormImmutable ==
  [][ret'.op \in {"dk.unlock_with_pin", "dk.get_keypair", "dk.sign", "dk.lock"}
       => /\ dk'.encrypted = dk.encrypted
          /\ dk'.device_fingerprint = dk.device_fingerprint]_vars

\* An unlock refused for a wrong PIN on a key that has its encrypted form.
C30_Witness ==
  /\ ret.op = "dk.unlock_with_pin" /\ ret.outcome = "DecryptionError"
  /\ dk.encrypted # NoEncrypted

\* C31: an unlock_with_pin() that fails (wrong PIN, malformed PIN, other device)
\* leaves raw keypair, cached keypair, cache expiry and encrypted form exactly as
\* they were: a locked key stays locked, a live cache stays live with its expiry.
C31_FailedUnlockChangesNothing ==
  [][(ret'.op = "dk.unlock_with_pin" /\ ret'.outcome # "ok") =>
       /\ dk' = dk
       /\ is_unlocked(dk', now') = is_unlocked(dk, now)
       /\ is_cached(dk', now') = is_cached(dk, now)]_vars

C31_Witness ==
  /\ ret.op = "dk.unlock_with_pin"
  /\ ret.outcome \in {"DecryptionError", "ValidationError", "DeviceMismatchError"}
  /\ dk.keypair = NoKeypair
  /\ is_cached(dk, now)

C33_EnableValidatesBeforeRequest ==
  (calc.fn = "enable" /\ calc.out # <<>>) =>
    LET o == calc.out[1]
        v == validate_request(calc.request) IN
    /\ v # "ok" => (~o.sent /\ o.outcome = v /\ o.delegate = <<>>)
    /\ o.sent <=> v = "ok"

C33_Witness ==
  /\ calc.fn = "enable" /\ calc.out # <<>>
  /\ validate_request(calc.request) # "ok"
  /\ ~calc.response.fail /\ calc.response.delegate_id # Absent
  /\ ~calc.out[1].sent

\* C34: load() checks the PIN and leaves the key it registers locked, whatever
\* was registered under the id before: no raw keypair, no cache, no expiry.  A
\* sign without PIN on a registered key that is locked fails and leaves it
\* locked; a locked key becomes usable without PIN only by unlock(), by a sign
\* that carries the PIN, or by a create() that registers the id anew.
C34_LoadLeavesLocked ==
  [][/\ (ret'.op = "load" /\ ret'.outcome = "ok") =>
          /\ ret'.id \in DOMAIN sessionKeys'
          /\ sessionKeys'[ret'.id].keypair = NoKeypair
          /\ sessionKeys'[ret'.id].cached_keypair = NoKeypair
          /\ sessionKeys'[ret'.id].cache_expires_at = NoExpiry
          /\ ~is_unlocked(sessionKeys'[ret'.id], now')
     /\ \A id \in DOMAIN sessionKeys :
          (Mgr_sign(id, NoPin) /\ ~is_unlocked(sessionKeys[id], now)) =>
             (ret'.outcome = "NotUnlockedError" /\ sessionKeys' = sessionKeys)
     /\ \A id \in DOMAIN sessionKeys \cap DOMAIN sessionKeys' :
          (~is_unlocked(sessionKeys[id], now) /\ is_unlocked(sessionKeys'[id], now')) =>
             /\ ret'.id = id /\ ret'.outcome = "ok"
             /\ ret'.op = "unlock" \/ (ret'.op = "sign" /\ ret'.pin) \/ ret'.op = "create"]_vars

\* load() has just replaced the entry of a key this manager created.
C34_Witness ==
  /\ ret.op = "load" /\ ret.outcome = "ok"
  /\ ret.id \in DOMAIN sessionKeys /\ ret.id \in DOMAIN sessionMetadata
  /\ ~is_unlocked(sessionKeys[ret.id], now)

\* C35: the manager's is_unlocked(id) is true exactly when sign(id, message)
\* without PIN would succeed at that moment.
C35_IsUnlockedIffPinlessSign ==
  \A id \in Ids :
    Mgr_is_unlocked(id) <=>
      /\ id \in DOMAIN sessionKeys
      /\ get_keypair(sessionKeys[id], NoPin, now, generate).outcome = "ok"

C37_ClassifiedByErrorCode ==
  (calc.fn = "handle_error_response" /\ calc.out # <<>>) =>
    /\ error_code(calc.body) = <<"INSUFFICIENT_BALANCE">> =>
         calc.out[1] = "InsufficientBalanceError"
    /\ error_code(calc.body) = <<"SESSION_EXPIRED">> =>
         calc.out[1] = "SessionKeyExpiredError"

\* C38 as stated: ensure_session posts to the backend exactly when no session
\* is cached or the cached one is not active.
C38_RequestIffNoActiveSession ==
  [][\A agent_id \in Agents, user_wallet \in BOOLEAN :
       Session_ensure_call(agent_id, user_wallet) =>
         (calc'.phase = "create" <=> (calc.cached = NoSession \/ ~calc.cached[1].is_active))]_vars

\* C38: ensure_session posts to the backend exactly when no active session is
\* cached and a wallet is at hand (passed or in ZENDFI_USER_WALLET); without a
\* wallet it raises ValueError and posts nothing; with an active cached session
\* it returns that session and leaves the cache alone; the session a
\* successful ensure_session creates is the cached one, and a smart_payment
\* without a token of its own sends the cached session's token.
C38_EnsureSessionUsesCache ==
  [][/\ \A agent_id \in Agents, user_wallet \in BOOLEAN :
          Session_ensure_call(agent_id, user_wallet) =>
            LET active == calc.cached # NoSession /\ calc.cached[1].is_active IN
            /\ calc'.cached = calc.cached
            /\ calc'.phase = "create" <=> (~active /\ (user_wallet \/ calc.env_wallet))
            /\ active => calc'.last = Outcome("ensure_session", agent_id, "ok", calc.cached, FALSE)
            /\ (~active /\ ~(user_wallet \/ calc.env_wallet)) =>
                 (calc'.last.outcome = "ValueError" /\ ~calc'.last.sent /\ calc'.phase = "idle")
     /\ (calc.phase = "create" /\ calc.op = "ensure_session" /\ calc'.phase = "idle"
           /\ calc'.last.outcome = "ok") =>
          (calc'.cached = calc'.last.session /\ calc'.cached # calc.cached)
     /\ \A agent_id \in Agents :
          (Session_smart_payment_call(agent_id, Absent) /\ calc.cached # NoSession) =>
            calc'.request.session_token = <<calc.cached[1].session_token>>]_vars

\* A smart_payment without token is out with the token of the cached session,
\* which an ensure_session created.
C38_Witness ==
  /\ calc.fn = "sessions" /\ calc.phase = "pay" /\ calc.op = "smart_payment"
  /\ calc.cached # NoSession
  /\ calc.request.session_token = <<calc.cached[1].session_token>>
  /\ calc.created[calc.cached[1].session_token].op = "ensure_session"

\* C39: the payment pay(agent_id=X) posts carries the token of a session that
\* was created for agent X.
C39_PayUsesOwnAgentsSession ==
  (calc.fn = "sessions" /\ calc.phase = "pay" /\ calc.op = "pay") =>
    /\ calc.request.session_token # Absent
    /\ calc.created[calc.request.session_token[1]].agent_id = calc.request.agent_id

====
